---- MODULE Spec2Model ----
(***************************************************************************)
(* Model of the swc module bundler core: Bundler::bundle and the Handler   *)
(* implementation (bundler/src/bundler/mod.rs), Bundler::resolve           *)
(* (bundler/src/bundler/import/mod.rs), and the parts of the bundler that  *)
(* those call (module registry, load_transformed driver, chunk, finalize), *)
(* which are modelled from spec.md sections 4.1, 4.4, 4.5 and 4.6.         *)
(***************************************************************************)
EXTENDS Integers, Sequences, FiniteSets, TLC

(* ---------------------------------------------------------------------- *)
(* Bounds of the explored inputs                                           *)
(* ---------------------------------------------------------------------- *)
\* most import declarations in one module
MaxImports == 2
\* most entries handed to one bundle(entries) call
MaxEntries == 2
\* most Handler calls made by callers other than the driver
MaxHostCalls == 2
\* most items in the body of the module the analyzer walks
MaxBody == 3
\* most regular files in the filesystem the resolver looks at
MaxFiles == 3
\* most calls made on one SwcComments
MaxCalls == 2

(* ---------------------------------------------------------------------- *)
(* The universe of inputs                                                  *)
(* ---------------------------------------------------------------------- *)
\* FileName values the resolver can produce
Paths == {"a", "b", "c"}
\* module specifiers appearing in import declarations
Specifiers == {"./a", "./b", "./c", "fs"}
\* source order of import declarations inside a module
SpecOrder == <<"./a", "./b", "./c", "fs">>
\* keys of the entries map
EntryNames == <<"e1", "e2", "e3">>

NoPath == "<none>"
NoInfo == [id |-> 0, local |-> 0, export |-> 0]

VARIABLES
    entries,            \* bundle's argument, in the map's iteration order
    imports,            \* what Loader.load yields: the imports of each file
    unloadable,         \* files for which Loader.load fails
    external_modules,   \* Config.external_modules
    module_id_gen,      \* Scope.module_id_gen: FileName -> (id, local, export)
    next_id,            \* next ModuleId to allocate
    mark_count,         \* Globals: number of marks allocated so far
    is_cjs,             \* ids flagged by mark_as_cjs
    wrapping_required,  \* ids flagged by mark_as_wrapping_required
    pc,                 \* per file: position of its load_transformed run
    todo,               \* per file: specifiers the driver still has to follow
    kids,               \* per file: children whose production it started
    errs,               \* per file: errors collected by its run
    store,              \* per file: published module record state
    raw_imports,        \* per file: RawImports produced by the analyzer
    loadCalls,          \* per file: number of Loader.load invocations
    resolveCalls,       \* (base, specifier) pairs given to Resolver.resolve
    followed,           \* specifiers the driver recursed through
    seen,               \* what each caller of load_transformed met
    queries,            \* (file, info) pairs returned by get_module_info
    bpc,                \* position of the bundle call
    bi,                 \* index of the entry being driven
    results,            \* bundle's `results` vector
    bundles,            \* output of chunk / finalize
    returned,           \* what bundle returned
    log,                \* sequence of pipeline calls made by bundle
    hostCalls,          \* Handler calls made so far by other callers
    inserts,            \* per file: number of insert_module calls
    takes,              \* (file, record state found) pairs of take_module calls
    fatal,              \* fatal errors (panics) raised so far
    config_require,     \* Config.require
    module_src,         \* body of the module handed to extract_import_info
    module_body,        \* the same body as the visitor mutates it
    v,                  \* the ImportHandler of extract_import_info
    wpc,                \* position of extract_import_info
    wpos,               \* index of the next body item the walk visits
    walks,              \* the walks completed: phase flag and items visited
    fsys,               \* the filesystem: regular files and package.json texts
    target_env,         \* NodeModulesResolver.target_env
    rcall,              \* the resolver function called and its arguments
    rres,               \* what the call returned
    leading,            \* SwcComments.leading: BytePos -> entry
    trailing,           \* SwcComments.trailing: BytePos -> entry
    moving,             \* per thread: the move it is in, and the comments it holds
    chist               \* the steps made on the SwcComments, in order

vars == <<entries, imports, unloadable, external_modules, module_id_gen,
          next_id, mark_count, is_cjs, wrapping_required, pc, todo, kids,
          errs, store, raw_imports, loadCalls, resolveCalls, followed, seen,
          queries, bpc, bi, results, bundles, returned, log, hostCalls,
          inserts, takes, fatal, config_require, module_src, module_body,
          v, wpc, wpos, walks, fsys, target_env, rcall, rres,
          leading, trailing, moving, chist>>

inputVars == <<entries, imports, unloadable, external_modules>>
registryVars == <<module_id_gen, next_id, mark_count>>
flagVars == <<is_cjs, wrapping_required>>
driverVars == <<pc, todo, kids, errs, raw_imports, loadCalls,
                resolveCalls, followed, seen>>
storeVars == <<store, inserts, takes>>
bundleVars == <<bpc, bi, results, bundles, returned, log>>
walkerVars == <<config_require, module_src, module_body, v, wpc, wpos, walks>>
resolverVars == <<fsys, target_env, rcall, rres>>
commentVars == <<leading, trailing, moving, chist>>

(* ---------------------------------------------------------------------- *)
(* Helpers                                                                 *)
(* ---------------------------------------------------------------------- *)
\* an entry of the call log
Event(op, arg) == [op |-> op, arg |-> arg]

\* the import declarations of a file, in source order
ImportSeq(set) == SelectSeq(SpecOrder, LAMBDA s : s \in set)

\* the host's Resolver: "./x" names the file x, anything else is not found
ResolverResolve(base, spec) ==
    CASE spec = "./a" -> "a"
      [] spec = "./b" -> "b"
      [] spec = "./c" -> "c"
      [] OTHER -> NoPath

\* Mark::fresh(Mark::root()) x 4 in Bundler::new: used_mark, helper,
\* synthesized and injected contexts take the first four marks
InitialMarks == 4


(* ---------------------------------------------------------------------- *)
(* Module registry (Scope) and the mark allocator                          *)
(* ---------------------------------------------------------------------- *)
\* the registry and allocator state the operators below thread through
RegState == [cache |-> module_id_gen, next_id |-> next_id,
             mark_count |-> mark_count, info |-> NoInfo]

\* an allocation that hands out two marks without advancing the allocator
genStaleCounter(st, path) ==
    IF st.cache[path] # NoInfo
    THEN [st EXCEPT !.info = st.cache[path]]
    ELSE LET info == [id |-> st.next_id,
                      local |-> st.mark_count + 1,
                      export |-> st.mark_count + 2]
         IN [cache |-> [st.cache EXCEPT ![path] = info],
             next_id |-> st.next_id + 1,
             mark_count |-> st.mark_count,
             info |-> info]

\* Scope.module_id_gen.gen(path): the stored triple when the path is known,
\* otherwise a fresh id and two fresh marks, stored before they are returned
gen(st, path) ==
    IF st.cache[path] # NoInfo
    THEN [st EXCEPT !.info = st.cache[path]]
    ELSE LET info == [id |-> st.next_id,
                      local |-> st.mark_count + 1,
                      export |-> st.mark_count + 2]
         IN [cache |-> [st.cache EXCEPT ![path] = info],
             next_id |-> st.next_id + 1,
             mark_count |-> st.mark_count + 2,
             info |-> info]

\* Scope.mark_as_cjs / Scope.mark_as_wrapping_required: set the flag
ScopeSetFlag(flags, id) == flags \cup {id}

(* ---------------------------------------------------------------------- *)
(* impl Handler for Bundler                                                *)
(* ---------------------------------------------------------------------- *)
\* a predicate that knows no external module
is_external_module_never(module_specifier) == FALSE

is_external_module(module_specifier) == module_specifier \in external_modules

\* Resolve::resolve(base, src): Ok(FileName) or Err(error)
ResolveResult(base, src) ==
    LET f == ResolverResolve(base, src)
    IN IF f = NoPath THEN [ok |-> FALSE, val |-> "<not found>"]
       ELSE [ok |-> TRUE, val |-> f]

\* a Handler that hands the resolver's error to the analyzer
HandlerResolvePropagate(base, src) == ResolveResult(base, src).val

\* self.resolver.resolve(base, src).ok(): Some(FileName) for Ok, None
\* (NoPath) for Err, the error being dropped
HandlerResolve(base, src) ==
    LET r == ResolveResult(base, src)
    IN IF r.ok THEN r.val ELSE NoPath

\* a lookup that ignores the stored triple and allocates again
get_module_info_uncached(st, path) ==
    gen([st EXCEPT !.cache = [@ EXCEPT ![path] = NoInfo]], path)

get_module_info(st, path) == gen(st, path)

\* a setter that flips the flag instead of setting it
mark_as_cjs_toggle(flags, id) ==
    IF id \in flags THEN flags \ {id} ELSE flags \cup {id}

mark_as_cjs(flags, id) == ScopeSetFlag(flags, id)

mark_as_wrapping_required(flags, id) == ScopeSetFlag(flags, id)

\* a Handler that recognises require calls whatever the Config says
supports_cjs_always == TRUE

\* self.config.require
supports_cjs == config_require

(* ---------------------------------------------------------------------- *)
(* Bundler::resolve (import/mod.rs)                                        *)
(* ---------------------------------------------------------------------- *)
ResolveErr(base, spec) == [kind |-> "resolve", at |-> base, what |-> spec]
LoadErr(path) == [kind |-> "load", at |-> path, what |-> path]

\* Ok(path), or Err("failed to resolve <specifier> from <base>")
BundlerResolve(base, module_specifier) ==
    LET r == ResolverResolve(base, module_specifier)
    IN IF r = NoPath
       THEN [ok |-> FALSE, path |-> NoPath,
             err |-> ResolveErr(base, module_specifier)]
       ELSE [ok |-> TRUE, path |-> r, err |-> ResolveErr(base, module_specifier)]

(* ---------------------------------------------------------------------- *)
(* Import analyzer (spec.md 4.3): what it asks of the Handler              *)
(* ---------------------------------------------------------------------- *)
\* one specifier record of RawImports
SpecifierRecord(path, spec) ==
    [src |-> spec,
     target |-> IF is_external_module(spec) THEN "external"
                ELSE IF HandlerResolve(path, spec) = NoPath THEN "unresolvable"
                ELSE HandlerResolve(path, spec)]

\* RawImports: the specifier records in source order
RawImports(path, seq) == [i \in 1..Len(seq) |-> SpecifierRecord(path, seq[i])]

\* the registry after the analyzer has looked up every resolved import
RECURSIVE AnalyzerLookups(_, _, _)
AnalyzerLookups(st, path, seq) ==
    IF seq = <<>> THEN st
    ELSE LET rec == SpecifierRecord(path, Head(seq))
         IN IF rec.target \in Paths
            THEN AnalyzerLookups(get_module_info(st, rec.target), path, Tail(seq))
            ELSE AnalyzerLookups(st, path, Tail(seq))

\* the (base, specifier) pairs the analyzer hands to Handler::resolve
AnalyzerResolves(path, seq) ==
    {<<path, seq[i]>> : i \in {j \in 1..Len(seq) : ~is_external_module(seq[j])}}

(* ---------------------------------------------------------------------- *)
(* Import analyzer: extract_import_info and its visitor (import/mod.rs,    *)
(* spec.md 4.3)                                                            *)
(* ---------------------------------------------------------------------- *)
\* identifiers bound by `import * as ns` and the property names used on them
Namespaces == {"M", "N"}
Props == {"x", "y"}

\* one item of a module body
Item(k, id, prop, lit, top, names) ==
    [k |-> k, id |-> id, prop |-> prop, lit |-> lit, top |-> top,
     names |-> names]

\* import * as ns from "..."
ImportNs(ns) == Item("import_ns", ns, "", TRUE, TRUE, {})
\* ns.prop
Member(ns, prop) == Item("member", ns, prop, TRUE, TRUE, {})
\* ns[expr]
Computed(ns) == Item("computed", ns, "", FALSE, TRUE, {})
\* f(ns): the namespace object used as a value
AsValue(ns) == Item("value", ns, "", TRUE, TRUE, {})
\* ns = expr
Assigned(ns) == Item("assign", ns, "", TRUE, TRUE, {})
\* require(arg): lit says the argument is a string literal, top that the
\* call stands at the top level of the module
Require(lit, top) == Item("require", "", "", lit, top, {})
\* import { names } from "...": what a deglobbed namespace import becomes
ImportNamed(ns, names) == Item("import_named", ns, "", TRUE, TRUE, names)
\* the plain identifier a deglobbed ns.prop becomes
Ident(prop) == Item("ident", "", prop, TRUE, TRUE, {})

\* the items a module body is written with
Items ==
    {ImportNs(ns) : ns \in Namespaces}
    \cup {Member(ns, x) : ns \in Namespaces, x \in Props}
    \cup {Computed(ns) : ns \in Namespaces}
    \cup {AsValue(ns) : ns \in Namespaces}
    \cup {Assigned(ns) : ns \in Namespaces}
    \cup {Require(l, t) : l \in BOOLEAN, t \in BOOLEAN}

\* the item uses the identifier ns (it is not its import declaration)
Refers(item, ns) ==
    item.id = ns /\ item.k \in {"member", "computed", "value", "assign"}

\* the module declares the namespace import ns
Declares(body, ns) ==
    \E i \in DOMAIN body : body[i].k = "import_ns" /\ body[i].id = ns

\* module bodies: a namespace is imported at most once, an identifier is
\* used only in a module that imports it, and N is imported only next to M
Bodies ==
    {b \in UNION {[1..n -> Items] : n \in 0..MaxBody} :
        /\ \A i, j \in DOMAIN b :
              (b[i].k = "import_ns" /\ b[j].k = "import_ns"
                 /\ b[i].id = b[j].id) => i = j
        /\ \A ns \in Namespaces :
              (\E i \in DOMAIN b : Refers(b[i], ns)) => Declares(b, ns)
        /\ Declares(b, "N") => Declares(b, "M")}

\* one recorded usage of an identifier
Usage(kind, prop) == [kind |-> kind, prop |-> prop]

\* the ImportHandler built by extract_import_info (lines 30-41)
NewImportHandler(path) ==
    [path |-> path,
     top_level |-> FALSE,
     info |-> <<>>,
     usages |-> [ns \in Namespaces |-> {}],
     imported_idents |-> {},
     deglob_phase |-> FALSE,
     idents_to_deglob |-> {},
     in_obj_of_member |-> FALSE]

\* a second walk that is made with the flag of the first
SecondWalkSamePhase(h) == h

\* `v.deglob_phase = true` between the two walks (line 44)
SecondWalkPhase(h) == [h EXCEPT !.deglob_phase = TRUE]

\* phase 1, one item: record imports and every usage of an identifier;
\* with supports_cjs, a top-level require of a string literal is an import
VisitCollect(h, item) ==
    CASE item.k = "import_ns" ->
            [h EXCEPT !.info = Append(@, [kind |-> "namespace", id |-> item.id]),
                      !.imported_idents = @ \cup {item.id}]
      [] item.k = "member" ->
            [h EXCEPT !.usages[item.id] = @ \cup {Usage("member", item.prop)}]
      [] item.k = "computed" ->
            [h EXCEPT !.usages[item.id] = @ \cup {Usage("dynamic", "")}]
      [] item.k = "value" ->
            [h EXCEPT !.usages[item.id] = @ \cup {Usage("value", "")}]
      [] item.k = "assign" ->
            [h EXCEPT !.usages[item.id] = @ \cup {Usage("assigned", "")}]
      [] item.k = "require" /\ supports_cjs /\ item.top /\ item.lit ->
            [h EXCEPT !.info = Append(@, [kind |-> "require", id |-> ""])]
      [] OTHER -> h

\* phase 1: the require call makes the containing module wrapping_required
NeedsWrapping(item) ==
    item.k = "require" /\ supports_cjs /\ ~(item.top /\ item.lit)

\* an eligibility test that lets ns[expr] pass
EligibleWithDynamic(h, ns) ==
    /\ ns \in h.imported_idents
    /\ \A u \in h.usages[ns] : u.kind \in {"member", "dynamic"}

\* end of phase 1: ns can be deglobbed iff every recorded usage is a member
\* access with a static property name
Eligible(h, ns) ==
    /\ ns \in h.imported_idents
    /\ \A u \in h.usages[ns] : u.kind = "member"

\* the member names actually referenced on ns
DeglobNames(h, ns) ==
    {u.prop : u \in {w \in h.usages[ns] : w.kind = "member"}}

\* phase 2, one item: the import of a deglobbed namespace becomes named
\* imports and each ns.x becomes x
VisitRewrite(h, item) ==
    IF item.id \notin h.idents_to_deglob THEN item
    ELSE IF item.k = "import_ns" THEN ImportNamed(item.id, DeglobNames(h, item.id))
    ELSE IF item.k = "member" THEN Ident(item.prop)
    ELSE item

\* no extract_import_info call is under way
WalkerIdle ==
    /\ config_require = FALSE
    /\ module_src = <<>>
    /\ module_body = <<>>
    /\ v = NewImportHandler(NoPath)
    /\ wpc = "idle"
    /\ wpos = 0
    /\ walks = <<>>

(* ---------------------------------------------------------------------- *)
(* NodeModulesResolver (resolvers/node.rs): paths and the filesystem       *)
(* ---------------------------------------------------------------------- *)
\* A path is the sequence of its components below the root; a component is
\* the sequence of the dot-separated parts of its name ("index.js" is
\* <<"index", "js">>), so that `format!("{}.{}", name, ext)` is Append
CurDir == <<".">>
ParentDir == <<"..">>
Dir(name) == <<name>>
File(stem, ext) == <<stem, ext>>
Root == <<>>

\* the value standing for "no such path"
MissingPath == <<<<"<missing>">>>>
\* Option::None of Path::file_name
NoName == <<>>

\* is_core_module (lines 19-87)
CoreModules ==
    {"_http_agent", "_http_client", "_http_common", "_http_incoming",
     "_http_outgoing", "_http_server", "_stream_duplex",
     "_stream_passthrough", "_stream_readable", "_stream_transform",
     "_stream_wrap", "_stream_writable", "_tls_common", "_tls_wrap",
     "assert", "assert/strict", "async_hooks", "buffer", "child_process",
     "cluster", "console", "constants", "crypto", "dgram",
     "diagnostics_channel", "dns", "dns/promises", "domain", "events",
     "fs", "fs/promises", "http", "http2", "https", "inspector", "module",
     "net", "os", "path", "path/posix", "path/win32", "perf_hooks",
     "process", "punycode", "querystring", "readline", "repl", "stream",
     "stream/promises", "string_decoder", "sys", "timers",
     "timers/promises", "tls", "trace_events", "tty", "url", "util",
     "util/types", "v8", "vm", "wasi", "worker_threads", "zlib"}

\* a resolver that knows no built-in module
is_core_module_none(s) == FALSE

is_core_module(s) == s \in CoreModules

\* static EXTENSIONS (line 104)
EXTENSIONS == <<"ts", "tsx", "js", "jsx", "json", "node">>

\* directories that exist whatever files there are: / and /p
FixedDirs == {Root, <<Dir("p")>>}

\* the directories of a set of files: the fixed ones and every ancestor of
\* a regular file
DirsOf(files) ==
    FixedDirs \cup UNION {{SubSeq(f, 1, k) : k \in 0..(Len(f) - 1)} : f \in files}

FsDirs == fsys.dirs

\* the operating system looks a path up: "." needs a directory and stays,
\* ".." needs a directory and goes up, a name needs a directory holding it
RECURSIVE Walk(_, _)
Walk(cur, rest) ==
    IF rest = <<>> THEN cur
    ELSE IF cur \notin FsDirs THEN MissingPath
    ELSE IF Head(rest) = CurDir THEN Walk(cur, Tail(rest))
    ELSE IF Head(rest) = ParentDir
    THEN Walk(IF cur = Root THEN Root ELSE SubSeq(cur, 1, Len(cur) - 1),
              Tail(rest))
    ELSE IF Append(cur, Head(rest)) \in fsys.files \cup FsDirs
    THEN Walk(Append(cur, Head(rest)), Tail(rest))
    ELSE MissingPath

\* Path::canonicalize, Path::is_file, Path::is_dir
canonicalize(path) == Walk(Root, path)
is_file(path) == canonicalize(path) \in fsys.files
is_dir(path) == canonicalize(path) \in FsDirs

\* Path::components of an absolute path: "." components are skipped
Components(path) == SelectSeq(path, LAMBDA c : c # CurDir)

\* Path::file_name: the last component, None when the path ends in ".."
\* or is the root
file_name(path) ==
    LET cs == Components(path)
    IN IF cs = <<>> \/ cs[Len(cs)] = ParentDir THEN NoName ELSE cs[Len(cs)]

\* a path without the "." components it ends with
RECURSIVE TrimCurDir(_)
TrimCurDir(path) ==
    IF path # <<>> /\ path[Len(path)] = CurDir
    THEN TrimCurDir(SubSeq(path, 1, Len(path) - 1))
    ELSE path

\* Path::parent: the path without its last component, None for the root
parent(path) ==
    LET q == TrimCurDir(path)
    IN IF q = <<>> THEN [some |-> FALSE, path |-> Root]
       ELSE [some |-> TRUE, path |-> TrimCurDir(SubSeq(q, 1, Len(q) - 1))]

\* Path::join of a relative path, PathBuf::push of one component
join(path, rel) == path \o rel
push(path, comp) == Append(path, comp)

\* PathBuf::set_file_name: pop when there is a file name, then push
set_file_name(path, name) ==
    push(IF file_name(path) # NoName THEN parent(path).path ELSE path, name)

\* a target string as Path::new(target) sees it
Target(text, abs, comps) == [text |-> text, abs |-> abs, comps |-> comps]
NoTarget == Target("", FALSE, <<>>)

\* a field of PackageJson that is absent
NoField == Target("<none>", FALSE, <<>>)

\* FileName::Real(path), and a FileName of another kind
RealFile(path) == [kind |-> "real", path |-> path, name |-> ""]
CustomFile(name) == [kind |-> "custom", path |-> Root, name |-> name]

\* Result values: Ok(PathBuf), Ok(FileName), Err(message); and the call that
\* never returns because its recursion has no end
OkPath(path) ==
    [tag |-> "ok", kind |-> "path", path |-> path, name |-> "", err |-> ""]
OkReal(path) ==
    [tag |-> "ok", kind |-> "real", path |-> path, name |-> "", err |-> ""]
OkCustom(name) ==
    [tag |-> "ok", kind |-> "custom", path |-> Root, name |-> name, err |-> ""]
Err(msg) ==
    [tag |-> "err", kind |-> "none", path |-> Root, name |-> "", err |-> msg]
Overflow ==
    [tag |-> "overflow", kind |-> "none", path |-> Root, name |-> "", err |-> ""]
NoResult ==
    [tag |-> "none", kind |-> "none", path |-> Root, name |-> "", err |-> ""]

(* ---------------------------------------------------------------------- *)
(* NodeModulesResolver: the resolution functions                           *)
(* ---------------------------------------------------------------------- *)
\* a wrap that hands the path on as it was found
wrap_as_found(path) == OkReal(path)

\* wrap (lines 112-115): canonicalize, then FileName::Real
wrap(path) ==
    LET real == canonicalize(path)
    IN IF real = MissingPath THEN Err("failed to canonicalize")
       ELSE OkReal(real)

\* the loop of resolve_as_file from extension i on (lines 127-132): each
\* round replaces the file name of ext_path by name.ext
RECURSIVE TryExtensions(_, _, _)
TryExtensions(ext_path, name, i) ==
    IF i > Len(EXTENSIONS) THEN Err("file not found")
    ELSE LET next_path == set_file_name(ext_path, Append(name, EXTENSIONS[i]))
         IN IF is_file(next_path) THEN OkPath(next_path)
            ELSE TryExtensions(next_path, name, i + 1)

\* resolve_as_file (lines 119-137)
resolve_as_file(path) ==
    IF is_file(path) THEN OkPath(path)
    ELSE IF file_name(path) # NoName
    THEN TryExtensions(path, file_name(path), 1)
    ELSE Err("file not found")

\* the loop of resolve_index from extension i on
RECURSIVE TryIndex(_, _)
TryIndex(path, i) ==
    IF i > Len(EXTENSIONS) THEN Err("index not found")
    ELSE IF is_file(push(path, File("index", EXTENSIONS[i])))
    THEN OkPath(push(path, File("index", EXTENSIONS[i])))
    ELSE TryIndex(path, i + 1)

\* resolve_index (lines 185-197)
resolve_index(path) == TryIndex(path, 1)

\* a field list that prefers main to esnext
main_fields_main_first(pkg) ==
    IF target_env = "Node" THEN <<pkg.main, pkg.esnext>>
    ELSE <<pkg.browser, pkg.main, pkg.esnext>>

\* the candidate fields of a package.json, in the order they are tried
\* (lines 163-170)
main_fields(pkg) ==
    IF target_env = "Node" THEN <<pkg.esnext, pkg.main>>
    ELSE <<pkg.browser, pkg.esnext, pkg.main>>

\* the first field of the list that is present, NoField when none is
RECURSIVE FirstPresent(_)
FirstPresent(fields) ==
    IF fields = <<>> THEN NoField
    ELSE IF Head(fields) # NoField THEN Head(fields)
    ELSE FirstPresent(Tail(fields))

\* the path a package.json field names: pkg_dir.join(target)
JoinTarget(dir, target) ==
    IF target.abs THEN target.comps ELSE join(dir, target.comps)

RECURSIVE resolve_as_directory(_, _)
RECURSIVE resolve_package_main(_, _)

\* resolve_package_main (lines 156-182). `stack` holds the directories
\* whose resolve_as_directory call is still on the call stack
resolve_package_main(pkg_path, stack) ==
    LET pkg_dir == parent(pkg_path).path
        file == canonicalize(pkg_path)
    IN IF file \notin DOMAIN fsys.pkg \/ fsys.pkg[file].state = "unreadable"
       THEN Err("failed to open package.json")
       ELSE IF fsys.pkg[file].state = "invalid"
       THEN Err("failed to deserialize package.json")
       ELSE LET target == FirstPresent(main_fields(fsys.pkg[file]))
            IN IF target = NoField
               THEN Err("package.json does not contain a \"main\" string")
               ELSE LET path == JoinTarget(pkg_dir, target)
                        as_file == resolve_as_file(path)
                    IN IF as_file.tag = "ok" THEN as_file
                       ELSE resolve_as_directory(path, stack)

\* resolve_as_directory (lines 141-153). A call that meets the directory of
\* a call still on the stack repeats that call's steps, each time on a
\* longer path, and nothing in the code ends this. What ends it is the
\* system: the stack is used up and the process is stopped (Overflow), or
\* the path grows beyond the length the operating system accepts, the
\* deepest call finds no package.json, and the calls return with the index
\* file of the grown path
resolve_as_directory(path, stack) ==
    IF is_file(push(path, File("package", "json")))
    THEN IF canonicalize(path) \in stack
         THEN IF fsys.limit = "stack" THEN Overflow ELSE resolve_index(path)
         ELSE LET main == resolve_package_main(
                             push(path, File("package", "json")),
                             stack \cup {canonicalize(path)})
              IN IF main.tag \in {"ok", "overflow"} THEN main
                 ELSE resolve_index(path)
    ELSE resolve_index(path)

\* `resolve_as_file(&path).or_else(|_| resolve_as_directory(&path))`
FileOrDirectory(path) ==
    LET as_file == resolve_as_file(path)
    IN IF as_file.tag = "ok" THEN as_file ELSE resolve_as_directory(path, {})

\* resolve_node_modules (lines 200-216)
RECURSIVE resolve_node_modules(_, _)
resolve_node_modules(base_dir, target) ==
    LET node_modules == push(base_dir, Dir("node_modules"))
        result == IF is_dir(node_modules)
                  THEN FileOrDirectory(join(node_modules, target.comps))
                  ELSE Err("no node_modules")
    IN IF result.tag \in {"ok", "overflow"} THEN result
       ELSE IF parent(base_dir).some
       THEN resolve_node_modules(parent(base_dir).path, target)
       ELSE Err("not found")

\* `.and_then(|p| self.wrap(p))`
AndThenWrap(result) == IF result.tag = "ok" THEN wrap(result.path) ELSE result

\* a resolve that looks into node_modules when the path of an absolute or
\* relative specifier does not resolve
resolve_with_fallback(base, target) ==
    IF target_env = "Node" /\ is_core_module(target.text)
    THEN OkCustom(target.text)
    ELSE IF base.kind # "real" THEN Err("node-resolver supports only files")
    ELSE LET base_dir == parent(base.path).path
             path == IF target.abs THEN target.comps
                     ELSE join(base_dir, target.comps)
             direct == FileOrDirectory(path)
         IN IF direct.tag # "err" /\
               (target.abs \/ (target.comps # <<>> /\
                               Head(target.comps) \in {CurDir, ParentDir}))
            THEN AndThenWrap(direct)
            ELSE AndThenWrap(resolve_node_modules(base_dir, target))

\* impl Resolve for NodeModulesResolver: resolve (lines 220-266)
resolve(base, target) ==
    IF target_env = "Node" /\ is_core_module(target.text)
    THEN OkCustom(target.text)
    ELSE IF base.kind # "real" THEN Err("node-resolver supports only files")
    ELSE IF target.abs THEN AndThenWrap(FileOrDirectory(target.comps))
    ELSE LET base_dir == parent(base.path).path
         IN IF target.comps # <<>> /\ Head(target.comps) \in {CurDir, ParentDir}
            THEN AndThenWrap(FileOrDirectory(join(base_dir, target.comps)))
            ELSE AndThenWrap(resolve_node_modules(base_dir, target))

(* ---------------------------------------------------------------------- *)
(* NodeModulesResolver: the filesystems and the calls explored             *)
(* ---------------------------------------------------------------------- *)
P == <<Dir("p")>>
PX == <<Dir("p"), Dir("x")>>
PNM == <<Dir("p"), Dir("node_modules")>>
PNMM == <<Dir("p"), Dir("node_modules"), Dir("m")>>
NMM == <<Dir("node_modules"), Dir("m")>>

\* the package.json files
PackageFiles == {push(PX, File("package", "json")),
                 push(PNMM, File("package", "json"))}

\* the regular files a filesystem is made of
CandidateFiles ==
    {PX, push(P, File("x", "ts")), push(P, File("x", "js")),
     push(P, File("x", "node")),
     push(PX, File("index", "ts")), push(PX, File("index", "js")),
     push(PX, File("lib", "js")),
     push(PNM, File("m", "js")), push(PNM, File("fs", "js")),
     push(PNMM, File("index", "js")), push(PNMM, File("lib", "js")),
     <<Dir("node_modules"), File("m", "js")>>, push(NMM, File("index", "js"))}
    \cup PackageFiles

\* the sets of files that make a filesystem: no file is also a directory
FileSets ==
    {F \in SUBSET CandidateFiles :
        /\ Cardinality(F) <= MaxFiles
        /\ F \cap DirsOf(F) = {}}

\* what a package.json holds
Package(state, esnext, main, browser) ==
    [state |-> state, esnext |-> esnext, main |-> main, browser |-> browser]

MainLibJs == Target("./lib.js", FALSE, <<CurDir, File("lib", "js")>>)
MainLib == Target("lib", FALSE, <<Dir("lib")>>)
MainSelf == Target(".", FALSE, <<CurDir>>)
MainGone == Target("gone", FALSE, <<Dir("gone")>>)
MainIndexTs == Target("index.ts", FALSE, <<File("index", "ts")>>)

PackageTexts ==
    {Package("unreadable", NoField, NoField, NoField),
     Package("invalid", NoField, NoField, NoField),
     Package("ok", NoField, NoField, NoField),
     Package("ok", NoField, MainLibJs, NoField),
     Package("ok", NoField, MainLib, NoField),
     Package("ok", NoField, MainSelf, NoField),
     Package("ok", NoField, MainGone, NoField),
     Package("ok", MainIndexTs, MainLibJs, NoField),
     Package("ok", NoField, MainGone, MainLibJs)}

\* the limit of the system an endless recursion meets first; both can
\* happen where a package.json names its own directory
Limits(g) ==
    IF \E f \in DOMAIN g : MainSelf \in {g[f].esnext, g[f].main, g[f].browser}
    THEN {"stack", "path"}
    ELSE {"stack"}

\* the filesystems explored
FileSystems ==
    UNION {UNION {{[files |-> F, dirs |-> DirsOf(F), pkg |-> g, limit |-> l] :
                      l \in Limits(g)} :
                  g \in [F \cap PackageFiles -> PackageTexts]} :
           F \in FileSets}

\* the targets handed to resolve
TargetX == Target("./x", FALSE, <<CurDir, Dir("x")>>)
TargetXDot == Target("./x/.", FALSE, <<CurDir, Dir("x"), CurDir>>)
TargetUp == Target("../p/x", FALSE, <<ParentDir, Dir("p"), Dir("x")>>)
TargetAbs == Target("/p/x", TRUE, PX)
TargetM == Target("m", FALSE, <<Dir("m")>>)
TargetFs == Target("fs", FALSE, <<Dir("fs")>>)
TargetDotM == Target("./m", FALSE, <<CurDir, Dir("m")>>)
Targets ==
    {TargetX, TargetXDot, TargetUp, TargetAbs, TargetM, TargetFs, TargetDotM}

\* the bases handed to resolve: the file /p/a.js and a FileName::Custom
Bases == {RealFile(push(P, File("a", "js"))), CustomFile("input")}
NoBase == CustomFile("")

\* the paths handed to resolve_as_file
FilePaths ==
    {PX, push(PX, CurDir), push(PX, ParentDir), <<Dir("p"), CurDir, Dir("x")>>,
     push(P, File("x", "js"))}

\* the directories handed to resolve_as_directory and resolve_index
DirPaths == {PX, PNMM}

\* one call of a resolver function
Call(op, base, path, target) ==
    [op |-> op, base |-> base, path |-> path, target |-> target]
NoCall == Call("none", NoBase, Root, NoTarget)

\* no resolver call is made
ResolverIdle ==
    /\ fsys = [files |-> {}, dirs |-> FixedDirs, pkg |-> <<>>,
               limit |-> "stack"]
    /\ target_env = "Node"
    /\ rcall = NoCall
    /\ rres = NoResult

(* ---------------------------------------------------------------------- *)
(* SwcComments (lib.rs): two concurrent maps from BytePos to Vec<Comment>   *)
(* ---------------------------------------------------------------------- *)
\* the positions and the comments explored, and the threads that move
\* comments (a call that is one step can come from any other thread)
Positions == {"p1", "p2"}
Threads == {"t1", "t2"}
Comment(kind, text) == [kind |-> kind, text |-> text]
PureComment == Comment("Block", "#__PURE__")
PlainComments == {Comment("Line", "a"), Comment("Block", "b")}

\* a position without an entry, and an entry holding a Vec<Comment>
NoEntry == [present |-> FALSE, cmts |-> <<>>]
Entry(cmts) == [present |-> TRUE, cmts |-> cmts]

\* DashMap::entry(pos).or_default(): the entry, made empty when missing
or_default(map, pos) ==
    IF map[pos].present THEN map ELSE [map EXCEPT ![pos] = Entry(<<>>)]

\* `.entry(pos).or_default().push(cmt)`
entry_push(map, pos, cmt) ==
    [or_default(map, pos) EXCEPT ![pos].cmts = Append(@, cmt)]

\* an insert that replaces what the entry held
entry_insert(map, pos, cmts) == [map EXCEPT ![pos] = Entry(cmts)]

\* `.entry(pos).or_default().extend(cmts)`
entry_extend(map, pos, cmts) ==
    [or_default(map, pos) EXCEPT ![pos].cmts = @ \o cmts]

\* DashMap::remove(pos): the map without the entry, and the entry it had
map_remove(map, pos) ==
    [map |-> [map EXCEPT ![pos] = NoEntry], removed |-> map[pos]]

\* a push of the pure comment whatever the entry holds
add_pure_comment_unchecked(map, pos) == entry_push(map, pos, PureComment)

\* add_pure_comment (lines 867-878), under the lock of the entry
add_pure_comment(map, pos) ==
    LET m == or_default(map, pos)
    IN IF \E i \in DOMAIN m[pos].cmts : m[pos].cmts[i].text = PureComment.text
       THEN m
       ELSE [m EXCEPT ![pos].cmts = Append(@, PureComment)]

\* a thread that is in no move, and one between the two map operations of
\* move_leading or move_trailing
NotMoving == [pc |-> "idle", side |-> "none", to |-> "p1", cmt |-> <<>>]
Moving(side, to, cmt) == [pc |-> "extend", side |-> side, to |-> to, cmt |-> cmt]

\* one step on the SwcComments
Step(op, step, thread, from, to) ==
    [op |-> op, step |-> step, thread |-> thread, from |-> from, to |-> to]

\* the thread of a call that is one step: any thread that is in no move
Caller == "any"

\* Default::default(): both maps empty
EmptyMap == [p \in Positions |-> NoEntry]

\* no SwcComments is in use
CommentsIdle ==
    /\ leading = EmptyMap
    /\ trailing = EmptyMap
    /\ moving = [t \in Threads |-> NotMoving]
    /\ chist = <<>>

(* ---------------------------------------------------------------------- *)
(* Initial state: a Bundler just built by Bundler::new, and its inputs     *)
(* ---------------------------------------------------------------------- *)
\* specifiers a file may import: any but the one naming the file itself
Importable(p) == {s \in Specifiers : ResolverResolve(p, s) # p}

\* the entries maps explored: the map's first entry is the file a, the
\* others are a or b (two names may map to the same file)
EntryMaps ==
    UNION {{[i \in 1..n |-> [name |-> EntryNames[i], path |-> f[i]]] :
                f \in {g \in [1..n -> {"a", "b"}] : g[1] = "a"}} :
           n \in 1..MaxEntries}

\* the files a traversal from the given roots can load: it follows every
\* import that is not external and that the resolver finds
RECURSIVE Loadable(_, _, _)
Loadable(imp, ext, set) ==
    LET nxt == set \cup (Paths \cap UNION {{ResolverResolve(p, s) :
                                              s \in imp[p] \ ext} : p \in set})
    IN IF nxt = set THEN set ELSE Loadable(imp, ext, nxt)

\* the files named as entries, and the files the traversal loads
EntryFiles == {entries[i].path : i \in 1..Len(entries)}
Live == Loadable(imports, external_modules, EntryFiles)

\* two modules that are not entries import each other, directly or not
CycleAmongDeps ==
    \E p, q \in Live \ EntryFiles :
        /\ p # q
        /\ q \in Loadable(imports, external_modules, {p})
        /\ p \in Loadable(imports, external_modules, {q})

\* every file the traversal meets loads and every import it follows resolves
NoFailingImport ==
    /\ unloadable \cap Live = {}
    /\ \A p \in Live : \A s \in imports[p] \ external_modules :
          ResolverResolve(p, s) # NoPath

\* inputs differ only in what the bundler can read: a file no traversal
\* loads has no imports, and the loader failure and the external list are
\* present only where a loaded file meets them
InitBundler ==
    /\ entries \in EntryMaps
    /\ external_modules \in {{}, {"fs"}, {"./c"}}
    /\ unloadable \in {{}, {"c"}}
    /\ imports \in [Paths -> SUBSET Specifiers]
    /\ \A p \in Paths : /\ imports[p] \subseteq Importable(p)
                        /\ Cardinality(imports[p]) <= MaxImports
    /\ LET live == Loadable(imports, external_modules,
                            {entries[i].path : i \in 1..Len(entries)})
       IN /\ \A p \in Paths \ live : imports[p] = {}
          /\ \A p \in unloadable : imports[p] = {}
          /\ unloadable \subseteq live
          /\ external_modules \subseteq UNION {imports[p] : p \in live}
    /\ module_id_gen = [p \in Paths |-> NoInfo]
    /\ next_id = 1
    /\ mark_count = InitialMarks
    /\ is_cjs = {}
    /\ wrapping_required = {}
    /\ pc = [p \in Paths |-> "none"]
    /\ todo = [p \in Paths |-> <<>>]
    /\ kids = [p \in Paths |-> {}]
    /\ errs = [p \in Paths |-> {}]
    /\ store = [p \in Paths |-> "absent"]
    /\ raw_imports = [p \in Paths |-> <<>>]
    /\ loadCalls = [p \in Paths |-> 0]
    /\ resolveCalls = {}
    /\ followed = {}
    /\ seen = {}
    /\ queries = {}
    /\ bpc = "load"
    /\ bi = 1
    /\ results = <<>>
    /\ bundles = <<>>
    /\ returned = [tag |-> "running", errs |-> {}]
    /\ log = <<>>
    /\ hostCalls = 0
    /\ inserts = [p \in Paths |-> 0]
    /\ takes = {}
    /\ fatal = {}

\* bundle is called; the analyzer and the resolver are watched on their own
Init == InitBundler /\ WalkerIdle /\ ResolverIdle /\ CommentsIdle

(* ---------------------------------------------------------------------- *)
(* load_transformed (spec.md 4.4)                                          *)
(* ---------------------------------------------------------------------- *)
Finished(p) == pc[p] \in {"published", "failed"}

\* what a call of load_transformed(path, _) hands back once it returns:
\* the record of a published module, the error of a failed one, and only
\* the identity of a module whose production is still under way
Outcome(pcs, es, path) ==
    IF pcs[path] = "published" THEN [tag |-> "some", path |-> path, errs |-> {}]
    ELSE IF pcs[path] = "failed" THEN [tag |-> "err", path |-> path, errs |-> es[path]]
    ELSE [tag |-> "none", path |-> path, errs |-> {}]

\* what one caller of load_transformed(path, _) met: the identity the
\* registry gave it and how far the production of the module was
Seen(caller, path, info) ==
    [caller |-> caller, path |-> path, info |-> info, found |-> pc[path]]

\* a guard that only recognises finished productions: a caller that finds
\* the module still in production starts a second one
GuardFinishedOnly(pcs, path) ==
    IF pcs[path] \in {"published", "failed"} THEN pcs
    ELSE [pcs EXCEPT ![path] = "load"]

\* steps 1 and 2: look the path up in the registry, then pass the
\* single-flight guard: only a caller that finds no production for the path
\* starts one
Guard(pcs, path) ==
    IF pcs[path] = "none" THEN [pcs EXCEPT ![path] = "load"] ELSE pcs

\* a run that waits for every child it resolved, whoever produces it
JoinsEveryChild(ks, p, child, found) == [ks EXCEPT ![p] = @ \cup {child}]

\* the children a run waits for before it publishes: those whose
\* production it started itself; a child found in production (a dependency
\* cycle, or a sibling's child) or already produced is not waited for
Joins(ks, p, child, found) ==
    IF found = "none" THEN [ks EXCEPT ![p] = @ \cup {child}] ELSE ks

\* step 3: Loader.load(path)
Load(p) ==
    /\ fatal = {}
    /\ pc[p] = "load"
    /\ loadCalls' = [loadCalls EXCEPT ![p] = @ + 1]
    /\ IF p \in unloadable
       THEN /\ pc' = [pc EXCEPT ![p] = "failed"]
            /\ errs' = [errs EXCEPT ![p] = {LoadErr(p)}]
       ELSE /\ pc' = [pc EXCEPT ![p] = "analyze"]
            /\ errs' = errs
    /\ UNCHANGED <<inputVars, walkerVars, resolverVars, commentVars,
                   registryVars, flagVars, bundleVars, storeVars,
                   todo, kids, raw_imports, resolveCalls, followed, seen,
                   queries, hostCalls, fatal>>

\* step 4: the analyzer walks the module and fills RawImports
Analyze(p) ==
    /\ fatal = {}
    /\ pc[p] = "analyze"
    /\ LET seq == ImportSeq(imports[p])
           st == AnalyzerLookups(RegState, p, seq)
       IN /\ module_id_gen' = st.cache
          /\ next_id' = st.next_id
          /\ mark_count' = st.mark_count
          /\ raw_imports' = [raw_imports EXCEPT ![p] = RawImports(p, seq)]
          /\ resolveCalls' = resolveCalls \cup AnalyzerResolves(p, seq)
          /\ todo' = [todo EXCEPT ![p] = seq]
    /\ pc' = [pc EXCEPT ![p] = "deps"]
    /\ UNCHANGED <<inputVars, walkerVars, resolverVars, commentVars,
                   flagVars, bundleVars, storeVars, kids, errs,
                   loadCalls, followed, seen, queries, hostCalls, fatal>>

\* step 5, one specifier: skip an external one; otherwise resolve it and
\* recurse into the child, or record the failure and go on
Dep(p) ==
    /\ fatal = {}
    /\ pc[p] = "deps"
    /\ todo[p] # <<>>
    /\ LET spec == Head(todo[p])
           r == BundlerResolve(p, spec)
       IN IF is_external_module(spec)
          THEN UNCHANGED <<registryVars, pc, kids, errs, resolveCalls,
                           followed, seen>>
          ELSE /\ resolveCalls' = resolveCalls \cup {<<p, spec>>}
               /\ IF ~r.ok
                  THEN /\ errs' = [errs EXCEPT ![p] = @ \cup {r.err}]
                       /\ UNCHANGED <<registryVars, pc, kids, followed, seen>>
                  ELSE LET st == gen(RegState, r.path)
                       IN /\ module_id_gen' = st.cache
                          /\ next_id' = st.next_id
                          /\ mark_count' = st.mark_count
                          /\ pc' = Guard(pc, r.path)
                          /\ kids' = Joins(kids, p, r.path, pc[r.path])
                          /\ errs' = [errs EXCEPT ![p] =
                                        @ \cup Outcome(pc, errs, r.path).errs]
                          /\ followed' = followed \cup {spec}
                          /\ seen' = seen \cup {Seen(p, r.path, st.info)}
    /\ todo' = [todo EXCEPT ![p] = Tail(@)]
    /\ UNCHANGED <<inputVars, walkerVars, resolverVars, commentVars,
                   flagVars, bundleVars, storeVars, raw_imports,
                   loadCalls, queries, hostCalls, fatal>>

\* a publish that silently keeps the first record
insert_module_silent(st, p) ==
    IF st[p] = "absent"
    THEN [store |-> [st EXCEPT ![p] = "present"], fatal |-> {}]
    ELSE [store |-> st, fatal |-> {}]

\* Scope.insert_module: single-shot publish; the second publish for an id
\* is a fatal error
insert_module(st, p) ==
    IF st[p] = "absent"
    THEN [store |-> [st EXCEPT ![p] = "present"], fatal |-> {}]
    ELSE [store |-> st, fatal |-> {"double-publish"}]

\* Scope.take_module: destructive read of a published record; fatal when
\* there is no record to take
take_module(st, p) ==
    IF st[p] = "present"
    THEN [store |-> [st EXCEPT ![p] = "taken"], fatal |-> {}]
    ELSE [store |-> st, fatal |-> {"take-unpublished"}]

\* step 6: once every child this run started has returned, gather their
\* errors; fail if there are any, publish the record otherwise
Publish(p) ==
    /\ fatal = {}
    /\ pc[p] = "deps"
    /\ todo[p] = <<>>
    /\ \A k \in kids[p] : Finished(k)
    /\ LET all == errs[p] \cup UNION {errs[k] : k \in kids[p]}
       IN /\ errs' = [errs EXCEPT ![p] = all]
          /\ IF all = {}
             THEN /\ store' = insert_module(store, p).store
                  /\ inserts' = [inserts EXCEPT ![p] = @ + 1]
                  /\ fatal' = insert_module(store, p).fatal
                  /\ pc' = [pc EXCEPT ![p] = "published"]
             ELSE /\ UNCHANGED <<store, inserts, fatal>>
                  /\ pc' = [pc EXCEPT ![p] = "failed"]
    /\ UNCHANGED <<inputVars, walkerVars, resolverVars, commentVars,
                   registryVars, flagVars, bundleVars, todo, kids,
                   raw_imports, loadCalls, resolveCalls, followed, seen,
                   queries, hostCalls, takes>>

\* registry edges of a module: the files its RawImports resolved to
Edges(p) == {raw_imports[p][i].target : i \in DOMAIN raw_imports[p]} \cap Paths

\* external specifiers recorded in a module's RawImports
Externals(p) ==
    {raw_imports[p][i].src :
        i \in {j \in DOMAIN raw_imports[p] : raw_imports[p][j].target = "external"}}

\* R(E): the modules reachable from a set of roots over registry edges
RECURSIVE Reach(_)
Reach(set) ==
    LET nxt == set \cup UNION {Edges(p) : p \in set}
    IN IF nxt = set THEN set ELSE Reach(nxt)

\* the entry at position k of the map lies on an import cycle through an
\* entry registered before it (spec.md 4.4 and 7: entries that reference
\* each other are not supported)
EntryCycle(path, k) ==
    \E j \in 1..(k - 1) :
        /\ entries[j].path # path
        /\ path \in Reach({entries[j].path})
        /\ entries[j].path \in Reach({path})

\* what load_transformed(path, true) hands back to bundle: an entry caught
\* in a cycle of entries gets no record, only the identity
EntryOutcome(pcs, es, path, k) ==
    IF pcs[path] = "published" /\ EntryCycle(path, k)
    THEN [tag |-> "none", path |-> path, errs |-> {}]
    ELSE Outcome(pcs, es, path)

(* ---------------------------------------------------------------------- *)
(* Bundler::bundle (mod.rs)                                                *)
(* ---------------------------------------------------------------------- *)
\* the closure of lines 150-155 calls load_transformed(&path, true)
BundleCall ==
    /\ fatal = {}
    /\ bpc = "load"
    /\ bi <= Len(entries)
    /\ LET path == entries[bi].path
           st == gen(RegState, path)
       IN /\ module_id_gen' = st.cache
          /\ next_id' = st.next_id
          /\ mark_count' = st.mark_count
          /\ pc' = Guard(pc, path)
          /\ seen' = seen \cup {Seen(entries[bi].name, path, st.info)}
          /\ bpc' = IF pc[path] = "none" THEN "wait" ELSE "peek"
    /\ log' = Append(log, Event("load_transformed", bi))
    /\ UNCHANGED <<inputVars, walkerVars, resolverVars, commentVars,
                   flagVars, storeVars, todo, kids, errs,
                   raw_imports, loadCalls, resolveCalls, followed, queries,
                   bi, results, bundles, returned, hostCalls, fatal>>

\* a driver that stops at the first entry whose load_transformed failed
BundleReturnShortCircuit ==
    /\ fatal = {}
    /\ \/ bpc = "peek"
       \/ bpc = "wait" /\ Finished(entries[bi].path)
    /\ results' = Append(results, [name |-> entries[bi].name,
                                   res |-> EntryOutcome(pc, errs,
                                                       entries[bi].path, bi)])
    /\ bi' = bi + 1
    /\ bpc' = IF bi = Len(entries) \/ pc[entries[bi].path] = "failed"
              THEN "collect" ELSE "load"
    /\ UNCHANGED <<inputVars, walkerVars, resolverVars, commentVars,
                   registryVars, flagVars, driverVars, storeVars,
                   queries, bundles, returned, log, hostCalls, fatal>>

\* the call returns; its Result goes into `results` (line 156)
BundleReturn ==
    /\ fatal = {}
    /\ \/ bpc = "peek"
       \/ bpc = "wait" /\ Finished(entries[bi].path)
    /\ results' = Append(results, [name |-> entries[bi].name,
                                   res |-> EntryOutcome(pc, errs,
                                                       entries[bi].path, bi)])
    /\ bi' = bi + 1
    /\ bpc' = IF bi = Len(entries) THEN "collect" ELSE "load"
    /\ UNCHANGED <<inputVars, walkerVars, resolverVars, commentVars,
                   registryVars, flagVars, driverVars, storeVars,
                   queries, bundles, returned, log, hostCalls, fatal>>

\* index of the first result that is not Ok(Some(_)), 0 when there is none
FirstBad(rs) ==
    IF \A i \in 1..Len(rs) : rs[i].res.tag = "some" THEN 0
    ELSE CHOOSE i \in 1..Len(rs) :
            /\ rs[i].res.tag # "some"
            /\ \A j \in 1..(i - 1) : rs[j].res.tag = "some"

\* index of the last result that is an error, 0 when there is none
LastErr(rs) ==
    IF \A i \in 1..Len(rs) : rs[i].res.tag # "err" THEN 0
    ELSE CHOOSE i \in 1..Len(rs) :
            /\ rs[i].res.tag = "err"
            /\ \A j \in (i + 1)..Len(rs) : rs[j].res.tag # "err"

\* a loop that keeps going after an error and returns the last one
BundleCollectLastError ==
    /\ fatal = {}
    /\ bpc = "collect"
    /\ LET k == LastErr(results)
       IN IF k = 0
          THEN /\ bpc' = "chunk"
               /\ UNCHANGED <<returned, fatal>>
          ELSE /\ bpc' = "returned"
               /\ returned' = [tag |-> "err", errs |-> results[k].res.errs]
               /\ fatal' = fatal
    /\ UNCHANGED <<inputVars, walkerVars, resolverVars, commentVars,
                   registryVars, flagVars, driverVars, storeVars,
                   queries, bi, results, bundles, log, hostCalls>>

\* a loop that drops the failed entries and goes on to chunk
BundleCollectIgnoreErrors ==
    /\ fatal = {}
    /\ bpc = "collect"
    /\ bpc' = "chunk"
    /\ UNCHANGED <<inputVars, walkerVars, resolverVars, commentVars,
                   registryVars, flagVars, driverVars, storeVars,
                   queries, bi, results, bundles, returned, log, hostCalls,
                   fatal>>

\* a loop that leaves out an entry whose result is None instead of unwrapping
BundleCollectSkipNone ==
    /\ fatal = {}
    /\ bpc = "collect"
    /\ LET k == LastErr(results)
       IN IF k = 0
          THEN /\ bpc' = "chunk"
               /\ returned' = returned
          ELSE /\ bpc' = "returned"
               /\ returned' = [tag |-> "err",
                               errs |-> results[FirstBad(results)].res.errs]
    /\ UNCHANGED <<inputVars, walkerVars, resolverVars, commentVars,
                   registryVars, flagVars, driverVars, storeVars,
                   queries, bi, results, bundles, log, hostCalls, fatal>>

\* lines 161-172: `res?` returns the first error, `m.unwrap()` panics on None
BundleCollect ==
    /\ fatal = {}
    /\ bpc = "collect"
    /\ LET k == FirstBad(results)
       IN IF k = 0
          THEN /\ bpc' = "chunk"
               /\ UNCHANGED <<returned, fatal>>
          ELSE IF results[k].res.tag = "err"
          THEN /\ bpc' = "returned"
               /\ returned' = [tag |-> "err", errs |-> results[k].res.errs]
               /\ fatal' = fatal
          ELSE /\ bpc' = "panicked"
               /\ fatal' = {"unwrap-none"}
               /\ returned' = returned
    /\ UNCHANGED <<inputVars, walkerVars, resolverVars, commentVars,
                   registryVars, flagVars, driverVars, storeVars,
                   queries, bi, results, bundles, log, hostCalls>>


(* ---------------------------------------------------------------------- *)
(* chunk (spec.md 4.5) and finalize (spec.md 4.6)                          *)
(* ---------------------------------------------------------------------- *)
\* a map keyed by the module instead of the entry's name: two names for one
\* file collapse into one entry
LocalByModule(rs) ==
    LET first == {i \in 1..Len(rs) :
                     \A j \in 1..(i - 1) : rs[j].res.path # rs[i].res.path}
        keep == SelectSeq([i \in 1..Len(rs) |-> i], LAMBDA i : i \in first)
    IN [k \in 1..Len(keep) |-> [name |-> rs[keep[k]].name,
                                path |-> rs[keep[k]].res.path]]

\* lines 161-172: `output.insert(name, m)` for every result, in the order of
\* the entries map; `local` has one module per entry name
Local(rs) ==
    [i \in 1..Len(rs) |-> [name |-> rs[i].name, path |-> rs[i].res.path]]

\* the entry modules chunk is given (`local`)
LocalRoots == {entries[i].path : i \in 1..Len(results)}

\* two modules of one strongly connected component of the import graph
SameSCC(p, q) == q \in Reach({p}) /\ p \in Reach({q})

\* modules that can be merged next: everything they depend on outside
\* their own component is merged already
Ready(done, set) ==
    {p \in set \ done :
        \A q \in Reach({p}) \cap set : q \in done \/ SameSCC(p, q)}

\* the module of a set with the smallest ModuleId
MinId(set) ==
    CHOOSE p \in set :
        \A q \in set : module_id_gen[p].id <= module_id_gen[q].id

\* the module of a set with the largest ModuleId
MaxId(set) ==
    CHOOSE p \in set :
        \A q \in set : module_id_gen[p].id >= module_id_gen[q].id

\* a merge that breaks ties by descending ModuleId
RECURSIVE MergeFromDescending(_, _)
MergeFromDescending(order, set) ==
    LET done == {order[i] : i \in 1..Len(order)}
    IN IF done = set THEN order
       ELSE CHOOSE r \in {MergeFromDescending(Append(order, n), set) :
                             n \in {MaxId(Ready(done, set))}} : TRUE

\* spec.md 4.5 step 2: reverse topological order of R(E), dependencies
\* first; among the modules that can come next, the smallest ModuleId (n is
\* the one module merged at this step)
RECURSIVE MergeFrom(_, _)
MergeFrom(order, set) ==
    LET done == {order[i] : i \in 1..Len(order)}
    IN IF done = set THEN order
       ELSE CHOOSE r \in {MergeFrom(Append(order, n), set) :
                             n \in {MinId(Ready(done, set))}} : TRUE

\* the merge order of the bundle of one entry
MergeOrder(path) == MergeFrom(<<>>, Reach({path}))

\* chunk(local) is entered
ChunkStart ==
    /\ fatal = {}
    /\ bpc = "chunk"
    /\ bpc' = "taking"
    /\ log' = Append(log, Event("chunk", 0))
    /\ UNCHANGED <<inputVars, walkerVars, resolverVars, commentVars,
                   registryVars, flagVars, driverVars, storeVars,
                   queries, bi, results, bundles, returned, hostCalls, fatal>>

\* chunk takes one module of a reachable set out of the registry
ChunkTake(p) ==
    /\ fatal = {}
    /\ bpc = "taking"
    /\ p \in Reach(LocalRoots)
    /\ store[p] # "taken"
    /\ store' = take_module(store, p).store
    /\ takes' = takes \cup {<<p, store[p]>>}
    /\ fatal' = take_module(store, p).fatal
    /\ UNCHANGED <<inputVars, walkerVars, resolverVars, commentVars,
                   registryVars, flagVars, driverVars, bundleVars,
                   queries, hostCalls, inserts>>

\* the Bundle chunk builds for one entry
BundleOf(name, path) ==
    [kind |-> [tag |-> "Named", name |-> name],
     id |-> module_id_gen[path].id,
     modules |-> Reach({path}),
     order |-> MergeOrder(path),
     imports |-> UNION {Externals(p) : p \in Reach({path})}]

\* every module is taken: chunk returns one Bundle per entry
ChunkBuild ==
    /\ fatal = {}
    /\ bpc = "taking"
    /\ \A p \in Reach(LocalRoots) : store[p] = "taken"
    /\ bundles' = [i \in 1..Len(Local(results)) |->
                     BundleOf(Local(results)[i].name, Local(results)[i].path)]
    /\ bpc' = "finalize"
    /\ UNCHANGED <<inputVars, walkerVars, resolverVars, commentVars,
                   registryVars, flagVars, driverVars, storeVars,
                   queries, bi, results, returned, log, hostCalls, fatal>>

\* finalize(bundles), then Ok(bundles) (lines 176-177)
Finalize ==
    /\ fatal = {}
    /\ bpc = "finalize"
    /\ log' = Append(log, Event("finalize", 0))
    /\ returned' = [tag |-> "ok", errs |-> {}]
    /\ bpc' = "returned"
    /\ UNCHANGED <<inputVars, walkerVars, resolverVars, commentVars,
                   registryVars, flagVars, driverVars, storeVars,
                   queries, bi, results, bundles, hostCalls, fatal>>

(* ---------------------------------------------------------------------- *)
(* Handler calls made by other callers, at any moment                      *)
(* ---------------------------------------------------------------------- *)
HostGetModuleInfo(path) ==
    /\ fatal = {}
    /\ hostCalls < MaxHostCalls
    /\ LET st == get_module_info(RegState, path)
       IN /\ module_id_gen' = st.cache
          /\ next_id' = st.next_id
          /\ mark_count' = st.mark_count
          /\ queries' = queries \cup {<<path, st.info>>}
    /\ hostCalls' = hostCalls + 1
    /\ UNCHANGED <<inputVars, walkerVars, resolverVars, commentVars,
                   flagVars, driverVars, storeVars, bundleVars,
                   fatal>>

HostMarkAsCjs(id) ==
    /\ fatal = {}
    /\ hostCalls < MaxHostCalls
    /\ is_cjs' = mark_as_cjs(is_cjs, id)
    /\ hostCalls' = hostCalls + 1
    /\ log' = Append(log, Event("mark_as_cjs", id))
    /\ UNCHANGED <<inputVars, walkerVars, resolverVars, commentVars,
                   registryVars, driverVars, storeVars, bpc, bi,
                   results, bundles, returned, wrapping_required, queries,
                   fatal>>

HostMarkAsWrappingRequired(id) ==
    /\ fatal = {}
    /\ hostCalls < MaxHostCalls
    /\ wrapping_required' = mark_as_wrapping_required(wrapping_required, id)
    /\ hostCalls' = hostCalls + 1
    /\ log' = Append(log, Event("mark_as_wrapping_required", id))
    /\ UNCHANGED <<inputVars, walkerVars, resolverVars, commentVars,
                   registryVars, driverVars, storeVars, bpc, bi,
                   results, bundles, returned, is_cjs, queries, fatal>>

\* Scope.insert_module called by another pass of the bundler
HostInsertModule(p) ==
    /\ fatal = {}
    /\ hostCalls < MaxHostCalls
    /\ module_id_gen[p] # NoInfo
    /\ store' = insert_module(store, p).store
    /\ inserts' = [inserts EXCEPT ![p] = @ + 1]
    /\ fatal' = insert_module(store, p).fatal
    /\ hostCalls' = hostCalls + 1
    /\ UNCHANGED <<inputVars, walkerVars, resolverVars, commentVars,
                   registryVars, flagVars, driverVars, bundleVars,
                   queries, takes>>

\* Scope.take_module called by another pass of the bundler
HostTakeModule(p) ==
    /\ fatal = {}
    /\ hostCalls < MaxHostCalls
    /\ module_id_gen[p] # NoInfo
    /\ store' = take_module(store, p).store
    /\ takes' = takes \cup {<<p, store[p]>>}
    /\ fatal' = take_module(store, p).fatal
    /\ hostCalls' = hostCalls + 1
    /\ UNCHANGED <<inputVars, walkerVars, resolverVars, commentVars,
                   registryVars, flagVars, driverVars, bundleVars,
                   queries, inserts>>

\* ids handed out so far
KnownIds == 1..(next_id - 1)

(* ---------------------------------------------------------------------- *)
(* extract_import_info, step by step                                       *)
(* ---------------------------------------------------------------------- *)
bundlerVars == <<inputVars, registryVars, driverVars, storeVars, bundleVars,
                 queries, hostCalls, fatal>>

\* lines 30-42: the visitor is built and the first walk of module.body begins
WalkStart(path) ==
    /\ wpc = "idle"
    /\ pc[path] = "analyze"
    /\ v' = NewImportHandler(path)
    /\ wpc' = "walk"
    /\ wpos' = 1
    /\ UNCHANGED <<bundlerVars, resolverVars, commentVars,
                   flagVars, config_require,
                   module_src, module_body, walks>>

\* visit_mut_with reaches the next item of the body: phase 1 collects,
\* phase 2 rewrites
Visit ==
    /\ wpc = "walk"
    /\ wpos <= Len(module_body)
    /\ LET item == module_body[wpos]
       IN IF ~v.deglob_phase
          THEN /\ v' = VisitCollect(v, item)
               /\ wrapping_required' =
                     IF NeedsWrapping(item)
                     THEN mark_as_wrapping_required(wrapping_required,
                                                    module_id_gen[v.path].id)
                     ELSE wrapping_required
               /\ module_body' = module_body
          ELSE /\ module_body' = [module_body EXCEPT
                                     ![wpos] = VisitRewrite(v, item)]
               /\ UNCHANGED <<v, wrapping_required>>
    /\ wpos' = wpos + 1
    /\ UNCHANGED <<bundlerVars, resolverVars, commentVars,
                   is_cjs, config_require,
                   module_src, wpc, walks>>

\* a walk has visited the whole body: after the first, eligibility is
\* decided, the flag is set (line 44) and the second walk begins (line 45);
\* after the second, v.info is returned (line 47)
WalkEnd ==
    /\ wpc = "walk"
    /\ wpos > Len(module_body)
    /\ walks' = Append(walks, [phase |-> v.deglob_phase, visited |-> wpos - 1])
    /\ IF walks = <<>>
       THEN /\ v' = [SecondWalkPhase(v) EXCEPT !.idents_to_deglob =
                        {ns \in Namespaces : Eligible(v, ns)}]
            /\ wpos' = 1
            /\ wpc' = "walk"
       ELSE /\ wpc' = "done"
            /\ UNCHANGED <<v, wpos>>
    /\ UNCHANGED <<bundlerVars, resolverVars, commentVars,
                   flagVars, config_require,
                   module_src, module_body>>

(* ---------------------------------------------------------------------- *)
(* Calls of the resolver                                                   *)
(* ---------------------------------------------------------------------- *)
\* what every resolver call leaves alone
resolverFrame ==
    <<bundlerVars, flagVars, walkerVars, commentVars, fsys, target_env>>

CallResolve(base, target) ==
    /\ rcall = NoCall
    /\ rcall' = Call("resolve", base, Root, target)
    /\ rres' = resolve(base, target)
    /\ UNCHANGED resolverFrame

CallResolveAsFile(path) ==
    /\ rcall = NoCall
    /\ rcall' = Call("resolve_as_file", NoBase, path, NoTarget)
    /\ rres' = resolve_as_file(path)
    /\ UNCHANGED resolverFrame

CallResolveAsDirectory(path) ==
    /\ rcall = NoCall
    /\ rcall' = Call("resolve_as_directory", NoBase, path, NoTarget)
    /\ rres' = resolve_as_directory(path, {})
    /\ UNCHANGED resolverFrame

CallResolveIndex(path) ==
    /\ rcall = NoCall
    /\ rcall' = Call("resolve_index", NoBase, path, NoTarget)
    /\ rres' = resolve_index(path)
    /\ UNCHANGED resolverFrame

CallResolvePackageMain(pkg_path) ==
    /\ rcall = NoCall
    /\ rcall' = Call("resolve_package_main", NoBase, pkg_path, NoTarget)
    /\ rres' = resolve_package_main(pkg_path, {})
    /\ UNCHANGED resolverFrame

CallResolveNodeModules(base_dir, target) ==
    /\ rcall = NoCall
    /\ rcall' = Call("resolve_node_modules", NoBase, base_dir, target)
    /\ rres' = resolve_node_modules(base_dir, target)
    /\ UNCHANGED resolverFrame

(* ---------------------------------------------------------------------- *)
(* Calls on SwcComments                                                    *)
(* ---------------------------------------------------------------------- *)
\* what every call on SwcComments leaves alone
commentFrame == <<bundlerVars, flagVars, walkerVars, resolverVars>>

\* add_leading (lines 803-805)
AddLeading(pos, cmt) ==
    /\ Len(chist) < MaxCalls
    /\ leading' = entry_push(leading, pos, cmt)
    /\ chist' = Append(chist, Step("add_leading", "push", Caller, pos, pos))
    /\ UNCHANGED <<commentFrame, trailing, moving>>

\* add_trailing (lines 835-837)
AddTrailing(pos, cmt) ==
    /\ Len(chist) < MaxCalls
    /\ trailing' = entry_push(trailing, pos, cmt)
    /\ chist' = Append(chist, Step("add_trailing", "push", Caller, pos, pos))
    /\ UNCHANGED <<commentFrame, leading, moving>>

\* move_leading, line 820: `self.leading.remove(&from)`; the call is over
\* when there was no entry
MoveLeadingRemove(t, from, to) ==
    /\ Len(chist) < MaxCalls
    /\ moving[t] = NotMoving
    /\ LET r == map_remove(leading, from)
       IN /\ leading' = r.map
          /\ moving' = IF r.removed.present
                       THEN [moving EXCEPT
                                ![t] = Moving("leading", to, r.removed.cmts)]
                       ELSE moving
    /\ chist' = Append(chist, Step("move_leading", "remove", t, from, to))
    /\ UNCHANGED <<commentFrame, trailing>>

\* move_leading, lines 822-824: `self.leading.entry(to).or_default()
\* .extend(cmt.1)`
MoveLeadingExtend(t) ==
    /\ moving[t].pc = "extend"
    /\ moving[t].side = "leading"
    /\ leading' = entry_extend(leading, moving[t].to, moving[t].cmt)
    /\ moving' = [moving EXCEPT ![t] = NotMoving]
    /\ chist' = Append(chist, Step("move_leading", "extend", t,
                                   moving[t].to, moving[t].to))
    /\ UNCHANGED <<commentFrame, trailing>>

\* move_trailing, line 852
MoveTrailingRemove(t, from, to) ==
    /\ Len(chist) < MaxCalls
    /\ moving[t] = NotMoving
    /\ LET r == map_remove(trailing, from)
       IN /\ trailing' = r.map
          /\ moving' = IF r.removed.present
                       THEN [moving EXCEPT
                                ![t] = Moving("trailing", to, r.removed.cmts)]
                       ELSE moving
    /\ chist' = Append(chist, Step("move_trailing", "remove", t, from, to))
    /\ UNCHANGED <<commentFrame, leading>>

\* move_trailing, lines 854-856
MoveTrailingExtend(t) ==
    /\ moving[t].pc = "extend"
    /\ moving[t].side = "trailing"
    /\ trailing' = entry_extend(trailing, moving[t].to, moving[t].cmt)
    /\ moving' = [moving EXCEPT ![t] = NotMoving]
    /\ chist' = Append(chist, Step("move_trailing", "extend", t,
                                   moving[t].to, moving[t].to))
    /\ UNCHANGED <<commentFrame, leading>>

\* add_pure_comment (lines 867-878): the RefMut of the entry is held from
\* the lookup to the push, so the call is one step
AddPureComment(pos) ==
    /\ Len(chist) < MaxCalls
    /\ leading' = add_pure_comment(leading, pos)
    /\ chist' = Append(chist, Step("add_pure_comment", "push", Caller, pos, pos))
    /\ UNCHANGED <<commentFrame, trailing, moving>>

(* ---------------------------------------------------------------------- *)
(* Specifications                                                          *)
(* ---------------------------------------------------------------------- *)
\* one bundle(entries) call on a fresh Bundler
Next ==
    \/ BundleCall
    \/ BundleReturn
    \/ BundleCollect
    \/ ChunkStart
    \/ ChunkBuild
    \/ Finalize
    \/ \E p \in Paths : Load(p)
    \/ \E p \in Paths : Analyze(p)
    \/ \E p \in Paths : Dep(p)
    \/ \E p \in Paths : Publish(p)
    \/ \E p \in Paths : ChunkTake(p)

Spec == Init /\ [][Next]_vars

\* the same call on the inputs in which modules that are not entries
\* import each other. The bundle call and the load_transformed runs are
\* threads that keep running: a step that can be taken is eventually taken
InitCycles == Init /\ CycleAmongDeps

SpecCycles == InitCycles /\ [][Next]_vars /\ WF_vars(Next)

\* the same call on a narrower family of inputs (one entry, the file a; b
\* imports at most a; c imports nothing), while other callers use the
\* Handler at any moment
InitHandler ==
    /\ Init
    /\ Len(entries) = 1
    /\ imports["b"] \subseteq {"./a"}
    /\ imports["c"] = {}

NextHandler ==
    \/ Next
    \/ \E p \in Paths : HostGetModuleInfo(p)
    \/ \E id \in KnownIds : HostMarkAsCjs(id)
    \/ \E id \in KnownIds : HostMarkAsWrappingRequired(id)

SpecHandler == InitHandler /\ [][NextHandler]_vars

\* the same, while other passes of the bundler use the registry directly
NextRegistry ==
    \/ Next
    \/ \E p \in Paths : HostGetModuleInfo(p)
    \/ \E p \in Paths : HostInsertModule(p)
    \/ \E p \in Paths : HostTakeModule(p)

SpecRegistry == InitHandler /\ [][NextRegistry]_vars

\* extract_import_info on the module of the entry a, which the driver has
\* registered and loaded; the body and Config.require are the inputs
InitAnalyzer ==
    /\ entries = <<[name |-> "e1", path |-> "a"]>>
    /\ imports = [p \in Paths |-> {}]
    /\ unloadable = {}
    /\ external_modules = {}
    /\ module_id_gen = gen([cache |-> [p \in Paths |-> NoInfo], next_id |-> 1,
                            mark_count |-> InitialMarks, info |-> NoInfo],
                           "a").cache
    /\ next_id = 2
    /\ mark_count = InitialMarks + 2
    /\ is_cjs = {}
    /\ wrapping_required = {}
    /\ pc = [p \in Paths |-> IF p = "a" THEN "analyze" ELSE "none"]
    /\ todo = [p \in Paths |-> <<>>]
    /\ kids = [p \in Paths |-> {}]
    /\ errs = [p \in Paths |-> {}]
    /\ store = [p \in Paths |-> "absent"]
    /\ raw_imports = [p \in Paths |-> <<>>]
    /\ loadCalls = [p \in Paths |-> IF p = "a" THEN 1 ELSE 0]
    /\ resolveCalls = {}
    /\ followed = {}
    /\ seen = {[caller |-> "e1", path |-> "a", info |-> module_id_gen["a"],
                found |-> "none"]}
    /\ queries = {}
    /\ bpc = "wait"
    /\ bi = 1
    /\ results = <<>>
    /\ bundles = <<>>
    /\ returned = [tag |-> "running", errs |-> {}]
    /\ log = <<Event("load_transformed", 1)>>
    /\ hostCalls = 0
    /\ inserts = [p \in Paths |-> 0]
    /\ takes = {}
    /\ fatal = {}
    /\ config_require \in BOOLEAN
    /\ module_src \in Bodies
    /\ module_body = module_src
    /\ v = NewImportHandler(NoPath)
    /\ wpc = "idle"
    /\ wpos = 0
    /\ walks = <<>>
    /\ ResolverIdle
    /\ CommentsIdle

\* a NodeModulesResolver over one of the filesystems, and one call of one of
\* its functions
InitResolver ==
    /\ InitBundler
    /\ Len(entries) = 1
    /\ imports = [p \in Paths |-> {}]
    /\ unloadable = {}
    /\ external_modules = {}
    /\ WalkerIdle
    /\ fsys \in FileSystems
    /\ target_env \in {"Node", "Browser"}
    /\ rcall = NoCall
    /\ rres = NoResult
    /\ CommentsIdle

NextResolver ==
    \/ \E base \in Bases, target \in Targets : CallResolve(base, target)
    \/ \E path \in FilePaths : CallResolveAsFile(path)
    \/ \E path \in DirPaths : CallResolveAsDirectory(path)
    \/ \E path \in DirPaths : CallResolveIndex(path)
    \/ \E pkg_path \in PackageFiles : CallResolvePackageMain(pkg_path)
    \/ \E target \in {TargetM, TargetFs} : CallResolveNodeModules(P, target)

SpecResolver == InitResolver /\ [][NextResolver]_vars

NextAnalyzer ==
    \/ \E path \in Paths : WalkStart(path)
    \/ Visit
    \/ WalkEnd

SpecAnalyzer == InitAnalyzer /\ [][NextAnalyzer]_vars

\* the maps a SwcComments holds when the calls explored begin
InitialLeading ==
    {[p \in Positions |-> IF p = "p1" THEN e1 ELSE e2] :
        e1 \in {NoEntry, Entry(<<>>), Entry(<<Comment("Line", "a")>>),
                Entry(<<Comment("Block", "b"), Comment("Line", "a")>>)},
        e2 \in {NoEntry, Entry(<<Comment("Block", "b")>>)}}

InitialTrailing ==
    {EmptyMap, [EmptyMap EXCEPT !["p1"] = Entry(<<Comment("Line", "a")>>)]}

\* a SwcComments shared by the threads, which call it in any order
InitComments ==
    /\ InitBundler
    /\ Len(entries) = 1
    /\ imports = [p \in Paths |-> {}]
    /\ unloadable = {}
    /\ external_modules = {}
    /\ WalkerIdle
    /\ ResolverIdle
    /\ leading \in InitialLeading
    /\ trailing \in InitialTrailing
    /\ moving = [t \in Threads |-> NotMoving]
    /\ chist = <<>>

NextComments ==
    \/ \E pos \in Positions, cmt \in PlainComments : AddLeading(pos, cmt)
    \/ \E pos \in Positions, cmt \in PlainComments : AddTrailing(pos, cmt)
    \/ \E t \in Threads, from \in Positions, to \in Positions :
          MoveLeadingRemove(t, from, to)
    \/ \E t \in Threads : MoveLeadingExtend(t)
    \/ \E t \in Threads, from \in Positions, to \in Positions :
          MoveTrailingRemove(t, from, to)
    \/ \E t \in Threads : MoveTrailingExtend(t)
    \/ \E pos \in Positions : AddPureComment(pos)

SpecComments == InitComments /\ [][NextComments]_vars


(* ---------------------------------------------------------------------- *)
(* Properties                                                              *)
(* ---------------------------------------------------------------------- *)
InProduction == {"load", "analyze", "deps"}

\* the callers of load_transformed(p, _) so far
Callers(p) == {s \in seen : s.path = p}

Registered == {p \in Paths : module_id_gen[p] # NoInfo}

\* C2 (identity stability): every triple a registry query has returned, to
\* a Handler::get_module_info caller or to the driver, is a real triple
\* and is still the triple the registry holds for that FileName; so all
\* queries for one FileName, in any order and interleaving, agree.
C2_IdentityStability ==
    /\ \A q \in queries : q[2] # NoInfo /\ q[2] = module_id_gen[q[1]]
    /\ \A s \in seen : s.info # NoInfo /\ s.info = module_id_gen[s.path]

\* a Handler caller and the driver both queried the same file, and other
\* files were registered as well
C2_Witness ==
    /\ \E q \in queries : \E s \in seen : q[1] = s.path
    /\ Cardinality(Registered) = 3
    /\ hostCalls = 2

\* C3 (mark disjointness): two distinct registered modules have different
\* local marks and different export marks, and the local mark of a module
\* is not its export mark.
C3_MarkDisjointness ==
    \A p, q \in Registered :
        /\ module_id_gen[p].local # module_id_gen[p].export
        /\ p # q => /\ module_id_gen[p].local # module_id_gen[q].local
                    /\ module_id_gen[p].export # module_id_gen[q].export

\* three modules are registered, one of them by a Handler caller
C3_Witness ==
    /\ Cardinality(Registered) = 3
    /\ \E q \in queries : \A s \in seen : s.path # q[1]

\* the last call in the log, if it is a flag setter called on a set flag
RepeatedSetter(l, cjs, wr) ==
    /\ l # <<>>
    /\ \/ l[Len(l)].op = "mark_as_cjs" /\ l[Len(l)].arg \in cjs
       \/ l[Len(l)].op = "mark_as_wrapping_required" /\ l[Len(l)].arg \in wr

\* C4 (monotonic flags): no step of the bundler or of a Handler caller
\* removes an id from is_cjs or from wrapping_required, and a setter
\* called on a flag that is already set changes neither flag set.
C4_MonotonicFlags ==
    [][/\ is_cjs \subseteq is_cjs'
       /\ wrapping_required \subseteq wrapping_required'
       /\ (log' # log /\ RepeatedSetter(log', is_cjs, wrapping_required))
             => (is_cjs' = is_cjs /\ wrapping_required' = wrapping_required)
      ]_vars

\* mark_as_cjs was called twice on one id, the modules were then taken and
\* the bundle finalized, and the flag is still set
C4_Witness ==
    \E i, j, k \in 1..Len(log) :
        /\ i < j /\ j < k
        /\ log[i].op = "mark_as_cjs"
        /\ log[j] = log[i]
        /\ log[k].op = "chunk"
        /\ bpc = "returned"
        /\ returned.tag = "ok"
        /\ log[i].arg \in is_cjs


SomeFailed == \E i \in 1..Len(results) : results[i].res.tag = "err"

\* the statement of C5 as written: a failure aborts only its own entry, so
\* every entry whose load_transformed succeeded still gets its Bundle
C5_OnlyFailedEntryAborted ==
    bpc = "returned" =>
        \A i \in 1..Len(results) :
            results[i].res.tag = "some" =>
                \E j \in 1..Len(bundles) : bundles[j].kind.name = results[i].name

\* C5 (amended): after the load_transformed of one entry has failed,
\* bundle still drives load_transformed for every remaining entry, and
\* then returns the error: no entry of the call gets a Bundle, neither
\* chunk nor finalize runs.
C5_FailureAbortsBundle ==
    SomeFailed =>
        /\ bpc \in {"load", "wait", "peek", "collect", "returned"}
        /\ bpc \in {"collect", "returned"} => Len(results) = Len(entries)
        /\ bpc = "returned" => returned.tag = "err" /\ bundles = <<>>

\* the first entry failed, the second was still driven and succeeded, and
\* bundle returned the error
C5_Witness ==
    /\ bpc = "returned"
    /\ Len(results) = 2
    /\ results[1].res.tag = "err"
    /\ results[2].res.tag = "some"
    /\ returned.tag = "err"

\* every resolve failure any load_transformed run of the call has recorded
AllResolveFailures == {e \in UNION {errs[p] : p \in Paths} : e.kind = "resolve"}

\* the statement of C6 as written: the returned error reports all the
\* resolve failures of the bundle call together
C6_AllFailuresReported ==
    returned.tag = "err" => AllResolveFailures \subseteq returned.errs

\* C6 (amended): the error bundle returns is the error of one entry, the
\* first in the iteration order of the entries whose load_transformed
\* failed; it is that run's error as it stands, and failures of the
\* entries driven after it are not added to it.
C6_FirstFailedEntryOnly ==
    returned.tag = "err" =>
        LET k == FirstBad(results)
        IN /\ k # 0
           /\ results[k].res.tag = "err"
           /\ returned.errs = results[k].res.errs
           /\ returned.errs = errs[entries[k].path]

\* two entries failed on different imports and the returned error carries
\* only the first entry's failure
C6_Witness ==
    /\ returned.tag = "err"
    /\ Len(results) = 2
    /\ results[1].res.tag = "err"
    /\ results[2].res.tag = "err"
    /\ results[2].res.errs \ returned.errs # {}

\* C7 (externals): a specifier is recorded as external in RawImports
\* exactly when it is in Config.external_modules; such a specifier is
\* never given to Resolver.resolve, never followed into load_transformed
\* (a file reachable only through it is never loaded), and every bundle
\* whose modules import it still carries it as an import.
C7_Externals ==
    /\ \A p \in Paths : \A i \in DOMAIN raw_imports[p] :
          (raw_imports[p][i].target = "external")
              <=> (raw_imports[p][i].src \in external_modules)
    /\ \A c \in resolveCalls : c[2] \notin external_modules
    /\ followed \cap external_modules = {}
    /\ "./c" \in external_modules => loadCalls["c"] = 0 /\ pc["c"] = "none"
    /\ \A j \in 1..Len(bundles) : \A p \in bundles[j].modules :
          imports[p] \cap external_modules \subseteq bundles[j].imports

\* the bundle is finalized, one of its modules imports the external
\* "./c", which the resolver could have found, and the bundle imports it
C7_Witness ==
    /\ returned.tag = "ok"
    /\ external_modules = {"./c"}
    /\ \E j \in 1..Len(bundles) :
          /\ "./c" \in bundles[j].imports
          /\ "b" \in bundles[j].modules
          /\ "./c" \in imports["b"]


C9_SingleShotPublish ==
    /\ \A p \in Paths : inserts[p] >= 2 => "double-publish" \in fatal
    /\ \A p \in Paths : inserts[p] <= 2
    /\ \A p \in Paths : store[p] # "absent" => inserts[p] >= 1
    /\ \A t \in takes : t[2] = "absent" => "take-unpublished" \in fatal
    /\ \A q \in queries : q[2] # NoInfo /\ q[2].id \in KnownIds
    /\ \A s \in seen : s.info # NoInfo /\ s.info.id \in KnownIds
    /\ fatal \subseteq {"double-publish", "take-unpublished"}

\* a module the driver had published was published a second time
C9_Witness ==
    /\ \E p \in Paths : inserts[p] = 2 /\ pc[p] = "published"
    /\ fatal = {"double-publish"}

\* positions in the log of the calls of one operation
LogIndex(op) == {i \in 1..Len(log) : log[i].op = op}

\* C10 (pipeline order): chunk is called only after load_transformed has
\* been called, and has returned, for every entry; finalize is called only
\* after chunk; neither is called when the load_transformed of some entry
\* returned an error, and bundle then returns that error.
C10_PipelineOrder ==
    /\ \A c \in LogIndex("chunk") :
          /\ Len(results) = Len(entries)
          /\ {log[i].arg : i \in {j \in LogIndex("load_transformed") : j < c}}
                = 1..Len(entries)
          /\ \A j \in LogIndex("load_transformed") : j < c
    /\ \A f \in LogIndex("finalize") : \E c \in LogIndex("chunk") : c < f
    /\ Cardinality(LogIndex("chunk")) <= 1
    /\ Cardinality(LogIndex("finalize")) <= 1
    /\ SomeFailed => LogIndex("chunk") = {} /\ LogIndex("finalize") = {}
    /\ (SomeFailed /\ bpc = "returned") => returned.tag = "err"
    /\ returned.tag = "ok" => LogIndex("finalize") # {}

\* two entries were driven, then chunk, then finalize, and bundle returned
C10_Witness ==
    /\ returned.tag = "ok"
    /\ Len(entries) = 2
    /\ [i \in 1..Len(log) |-> log[i].op]
          = <<"load_transformed", "load_transformed", "chunk", "finalize">>

(* ---------------------------------------------------------------------- *)
(* C11: entries that reference each other                                  *)
(* ---------------------------------------------------------------------- *)
\* two entries name different files that import each other, directly or not
EntriesCircular ==
    \E i, j \in 1..Len(entries) :
        /\ entries[i].path # entries[j].path
        /\ entries[j].path \in Loadable(imports, external_modules,
                                        {entries[i].path})
        /\ entries[i].path \in Loadable(imports, external_modules,
                                        {entries[j].path})

C12_OneBundlePerEntry ==
    returned.tag = "ok" =>
        /\ Len(bundles) = Len(entries)
        /\ \A i \in 1..Len(entries) :
              \E j \in 1..Len(bundles) :
                  /\ bundles[j].kind.name = entries[i].name
                  /\ bundles[j].id = module_id_gen[entries[i].path].id
                  /\ bundles[j].id # 0
        /\ \A j, k \in 1..Len(bundles) :
              bundles[j].kind.name = bundles[k].kind.name => j = k

\* bundle returned Ok for two entry names, both naming one file
C12_Witness ==
    /\ returned.tag = "ok"
    /\ Len(entries) >= 2
    /\ entries[1].path = entries[2].path
    /\ Len(bundles) = Len(entries)

(* ---------------------------------------------------------------------- *)
(* C13: merge order                                                        *)
(* ---------------------------------------------------------------------- *)
\* position of a module in a merge order
PosIn(order, p) == CHOOSE i \in 1..Len(order) : order[i] = p

\* p imports q, directly or not, and q does not import p back
DependsOn(p, q) == q \in Reach({p}) /\ ~SameSCC(p, q)

C16_HandlerResolveNeverErrs ==
    \A p \in Paths : \A i \in DOMAIN raw_imports[p] :
        LET rec == raw_imports[p][i]
            r == ResolveResult(p, rec.src)
        IN rec.target # "external" =>
              /\ <<p, rec.src>> \in resolveCalls
              /\ r.ok => rec.target = r.val /\ rec.target \in Paths
              /\ ~r.ok => rec.target = "unresolvable"
              /\ (pc[p] = "deps" /\ Len(todo[p]) = Len(raw_imports[p]))
                    => errs[p] = {}

\* a module was analysed with one import the resolver found and one it did
\* not find
C16_Witness ==
    \E p \in Paths : \E i, j \in DOMAIN raw_imports[p] :
        /\ raw_imports[p][i].target = "unresolvable"
        /\ ~ResolveResult(p, raw_imports[p][i].src).ok
        /\ raw_imports[p][j].target \in Paths
        /\ pc[p] = "deps"
        /\ errs[p] = {}

(* ---------------------------------------------------------------------- *)
(* C14: deglob eligibility and soundness                                   *)
(* ---------------------------------------------------------------------- *)
\* the analyzer has rewritten the import of ns into named imports
Deglobbed(ns) ==
    \E i \in DOMAIN module_body :
        module_body[i].k = "import_named" /\ module_body[i].id = ns

\* C14: when extract_import_info has returned, an imported namespace ns is
\* deglobbed iff every use of ns in the module as it was handed in is a
\* member access with a static property name (no use as a value, no
\* assignment, no ns[expr]); and when it is deglobbed into a set of names,
\* every ns.y of the original module has y in that set and no use of ns is
\* left in the rewritten module
C14_Deglob ==
    wpc = "done" =>
        \A ns \in Namespaces :
            /\ Declares(module_src, ns) =>
                  (Deglobbed(ns) <=>
                     \A i \in DOMAIN module_src :
                        Refers(module_src[i], ns) => module_src[i].k = "member")
            /\ Deglobbed(ns) <=> ns \in v.idents_to_deglob
            /\ Deglobbed(ns) =>
                  /\ Declares(module_src, ns)
                  /\ \A i \in DOMAIN module_body :
                        /\ ~Refers(module_body[i], ns)
                        /\ (module_body[i].k = "import_named"
                              /\ module_body[i].id = ns) =>
                              \A j \in DOMAIN module_src :
                                 (module_src[j].k = "member"
                                    /\ module_src[j].id = ns) =>
                                    module_src[j].prop \in module_body[i].names

\* a module using M.x and M.y was analysed and M deglobbed into {x, y}
C14_Witness ==
    /\ wpc = "done"
    /\ \E i \in DOMAIN module_body :
          /\ module_body[i] = ImportNamed("M", {"x", "y"})
          /\ module_src[i] = ImportNs("M")
    /\ \E j \in DOMAIN module_body :
          module_src[j] = Member("M", "y") /\ module_body[j] = Ident("y")

(* ---------------------------------------------------------------------- *)
(* C15: CommonJS recognition                                               *)
(* ---------------------------------------------------------------------- *)
\* the require edges the analyzer has recorded
RequireEdges == {i \in DOMAIN v.info : v.info[i].kind = "require"}

\* the require calls of the module handed in, by hoistability
HoistableRequires ==
    {i \in DOMAIN module_src : module_src[i] = Require(TRUE, TRUE)}
OtherRequires ==
    {i \in DOMAIN module_src :
        module_src[i].k = "require" /\ module_src[i] # Require(TRUE, TRUE)}

\* C15: with Config.require false no require call ever yields an import
\* edge or a wrapping_required flag; with Config.require true, once
\* extract_import_info has returned, there is one import edge per top-level
\* require of a string literal and the module is flagged wrapping_required
\* exactly when it holds a require that is nested or has another argument
C15_CjsRecognition ==
    /\ ~config_require => RequireEdges = {} /\ wrapping_required = {}
    /\ (config_require /\ wpc = "done") =>
          /\ Cardinality(RequireEdges) = Cardinality(HoistableRequires)
          /\ module_id_gen["a"].id \in wrapping_required
                <=> OtherRequires # {}

\* with Config.require true a module with a top-level require("...") and a
\* nested one was analysed: one edge, and the module flagged
C15_Witness ==
    /\ wpc = "done"
    /\ config_require
    /\ Cardinality(RequireEdges) = 1
    /\ \E i \in OtherRequires : module_src[i] = Require(TRUE, FALSE)
    /\ wrapping_required = {module_id_gen["a"].id}

(* ---------------------------------------------------------------------- *)
(* C18: two-phase analysis                                                 *)
(* ---------------------------------------------------------------------- *)
\* the usage phase 1 records for an item that uses an identifier
UsageOf(item) ==
    CASE item.k = "member" -> Usage("member", item.prop)
      [] item.k = "computed" -> Usage("dynamic", "")
      [] item.k = "value" -> Usage("value", "")
      [] OTHER -> Usage("assigned", "")

\* C18: extract_import_info walks the whole body twice, the first time with
\* deglob_phase false and the second time with deglob_phase true, and
\* returns after the second walk; the body is not rewritten before the
\* first walk is over and every usage of the module has been collected
C18_TwoPhase ==
    /\ Len(walks) <= 2
    /\ \A k \in DOMAIN walks :
          /\ walks[k].phase = (k = 2)
          /\ walks[k].visited = Len(module_src)
    /\ wpc = "done" <=> Len(walks) = 2
    /\ wpc = "walk" => (v.deglob_phase <=> Len(walks) = 1)
    /\ module_body # module_src =>
          /\ v.deglob_phase
          /\ Len(walks) >= 1
          /\ \A i \in DOMAIN module_src : \A ns \in Namespaces :
                Refers(module_src[i], ns) =>
                   UsageOf(module_src[i]) \in v.usages[ns]

\* both walks are over and the second one has rewritten the body
C18_Witness ==
    /\ wpc = "done"
    /\ walks = <<[phase |-> FALSE, visited |-> Len(module_src)],
                 [phase |-> TRUE, visited |-> Len(module_src)]>>
    /\ module_body # module_src

(* ---------------------------------------------------------------------- *)
(* C17: what resolve returns                                               *)
(* ---------------------------------------------------------------------- *)
\* C17: every Ok of NodeModulesResolver::resolve is FileName::Custom(target)
\* for a core module name under TargetEnv::Node, or FileName::Real(p) with
\* p a regular file of the filesystem, not a directory, written without "."
\* and ".." components
C17_CanonicalResult ==
    (rcall.op = "resolve" /\ rres.tag = "ok") =>
        \/ /\ rres.kind = "custom"
           /\ target_env = "Node"
           /\ rres.name = rcall.target.text
           /\ rres.name \in CoreModules
        \/ /\ rres.kind = "real"
           /\ rcall.base.kind = "real"
           /\ rres.path \in fsys.files
           /\ rres.path \notin fsys.dirs
           /\ \A i \in DOMAIN rres.path :
                 rres.path[i] \notin {CurDir, ParentDir}

\* resolve("../p/x") from /p/a.js found the index file of the directory /p/x
C17_Witness ==
    /\ rcall.op = "resolve"
    /\ rcall.target = TargetUp
    /\ rres = OkReal(push(PX, File("index", "js")))

(* ---------------------------------------------------------------------- *)
(* C19: resolve_as_file                                                    *)
(* ---------------------------------------------------------------------- *)
\* the extensions in the order the claim lists them
ClaimedExtensions == <<"ts", "tsx", "js", "jsx", "json", "node">>

\* path.ext: the extension appended to the path as it is written
WithExtension(path, ext) ==
    [path EXCEPT ![Len(path)] = Append(@, ext)]

\* the extensions for which path.ext is a file
ExtensionHits(path) ==
    {i \in DOMAIN ClaimedExtensions :
        is_file(WithExtension(path, ClaimedExtensions[i]))}

\* C19 as stated: resolve_as_file(path) returns path unchanged when it is
\* a file; otherwise the first of path.ts, path.tsx, path.js, path.jsx,
\* path.json, path.node that is a file; otherwise the error "file not found"
C19_ResolveAsFile ==
    rcall.op = "resolve_as_file" =>
        IF is_file(rcall.path) THEN rres = OkPath(rcall.path)
        ELSE IF ExtensionHits(rcall.path) = {}
        THEN rres = Err("file not found")
        ELSE /\ rres.tag = "ok"
             /\ \E i \in ExtensionHits(rcall.path) :
                   /\ \A j \in ExtensionHits(rcall.path) : i <= j
                   /\ canonicalize(rres.path) =
                        canonicalize(WithExtension(rcall.path,
                                                   ClaimedExtensions[i]))

(* ---------------------------------------------------------------------- *)
(* C20: resolve_as_directory                                               *)
(* ---------------------------------------------------------------------- *)
\* C20 as stated: resolve_as_directory(dir) returns what resolving the main
\* entry of dir/package.json returns when that file exists and the main
\* entry resolves; in every other case it returns resolve_index(dir)
C20_ResolveAsDirectory ==
    rcall.op = "resolve_as_directory" =>
        LET pkg_path == push(rcall.path, File("package", "json"))
            main == resolve_package_main(pkg_path, {})
        IN IF is_file(pkg_path) /\ main.tag = "ok" THEN rres = main
           ELSE rres = resolve_index(rcall.path)

(* ---------------------------------------------------------------------- *)
(* C21: resolve_node_modules                                               *)
(* ---------------------------------------------------------------------- *)
\* the k-th ancestor of a directory (the directory itself for k = 0)
Ancestor(dir, k) == SubSeq(dir, 1, Len(dir) - k)

\* what the node_modules directory of one ancestor gives for a target
\* (as file, else as directory)
LookupAt(dir, target) ==
    FileOrDirectory(dir \o <<Dir("node_modules")>> \o target.comps)

\* the ancestors of dir whose node_modules directory resolves the target
ResolvingAncestors(dir, target) ==
    {k \in 0..Len(dir) :
        /\ is_dir(Append(Ancestor(dir, k), Dir("node_modules")))
        /\ LookupAt(Ancestor(dir, k), target).tag = "ok"}

\* C21 as stated: resolve_node_modules(base_dir, target) returns the
\* resolution of the nearest ancestor of base_dir (base_dir included) whose
\* node_modules directory resolves target, whatever the nearer node_modules
\* directories hold, and the error "not found" when no ancestor resolves it
C21_NodeModulesWalk ==
    rcall.op = "resolve_node_modules" =>
        LET hits == ResolvingAncestors(rcall.path, rcall.target)
        IN IF hits = {} THEN rres = Err("not found")
           ELSE \E k \in hits :
                   /\ \A j \in hits : k <= j
                   /\ rres = LookupAt(Ancestor(rcall.path, k), rcall.target)

(* ---------------------------------------------------------------------- *)
(* C22: termination of the resolution                                       *)
(* ---------------------------------------------------------------------- *)
\* C22 as stated: every call of resolve, and of the functions it is made
\* of, returns Ok or Err on every filesystem, also when the main field of a
\* package.json names the package directory itself
C22_ResolveTerminates ==
    rcall # NoCall => rres.tag \in {"ok", "err"}

(* ---------------------------------------------------------------------- *)
(* C23: core modules                                                        *)
(* ---------------------------------------------------------------------- *)
\* the directory of the base file
BaseDir(base) == SubSeq(base.path, 1, Len(base.path) - 1)

\* C23: under TargetEnv::Node resolve answers a built-in module name with
\* FileName::Custom(name) whatever the base and the filesystem are; in every
\* other case a base that is not FileName::Real gets the error "node-resolver
\* supports only files", and under TargetEnv::Browser a built-in name is
\* looked up in node_modules like any other bare name
C23_CoreModulePrecedence ==
    rcall.op = "resolve" =>
        LET name == rcall.target.text
            builtin == name \in CoreModules
        IN /\ (target_env = "Node" /\ builtin) => rres = OkCustom(name)
           /\ (~(target_env = "Node" /\ builtin) /\ rcall.base.kind # "real")
                 => rres = Err("node-resolver supports only files")
           /\ (target_env = "Browser" /\ builtin /\ rcall.base.kind = "real")
                 => /\ rres.kind # "custom"
                    /\ rres = AndThenWrap(resolve_node_modules(
                                  BaseDir(rcall.base), rcall.target))

\* resolve("fs") under Node from a base that is not a file, while
\* /p/node_modules/fs.js exists, returned FileName::Custom("fs")
C23_Witness ==
    /\ rcall.op = "resolve"
    /\ rcall.target = TargetFs
    /\ rcall.base.kind = "custom"
    /\ target_env = "Node"
    /\ push(PNM, File("fs", "js")) \in fsys.files
    /\ rres = OkCustom("fs")

(* ---------------------------------------------------------------------- *)
(* C24: the fields of package.json                                          *)
(* ---------------------------------------------------------------------- *)
\* the candidate fields the claim lists for the target environment
ClaimedFields ==
    IF target_env = "Node" THEN <<"esnext", "main">>
    ELSE <<"browser", "esnext", "main">>

\* C24: resolve_package_main on a package.json that can be read returns the
\* outcome, success or failure, of resolving (as file, else as directory,
\* from the package directory) the first of the candidate fields [esnext,
\* main] (Node) or [browser, esnext, main] (Browser) that is present, and an
\* error when none is present
C24_MainFieldPriority ==
    (/\ rcall.op = "resolve_package_main"
     /\ rcall.path \in DOMAIN fsys.pkg
     /\ fsys.pkg[rcall.path].state = "ok") =>
        LET pkg == fsys.pkg[rcall.path]
            pkg_dir == SubSeq(rcall.path, 1, Len(rcall.path) - 1)
            present == {i \in DOMAIN ClaimedFields :
                           pkg[ClaimedFields[i]] # NoField}
        IN IF present = {} THEN rres.tag = "err"
           ELSE \E i \in present :
                   /\ \A j \in present : i <= j
                   /\ rres = FileOrDirectory(
                                pkg_dir \o pkg[ClaimedFields[i]].comps)

\* under Node the package.json of /p/x has esnext "index.ts", which does
\* not exist, and main "./lib.js", which does: the result is the failure
C24_Witness ==
    /\ rcall.op = "resolve_package_main"
    /\ rcall.path = push(PX, File("package", "json"))
    /\ target_env = "Node"
    /\ rcall.path \in DOMAIN fsys.pkg
    /\ fsys.pkg[rcall.path] = Package("ok", MainIndexTs, MainLibJs, NoField)
    /\ push(PX, File("lib", "js")) \in fsys.files
    /\ rres.tag = "err"

(* ---------------------------------------------------------------------- *)
(* C25: absolute and relative specifiers                                    *)
(* ---------------------------------------------------------------------- *)
\* the specifier is absolute or starts with "." or ".."
IsPathSpecifier(target) ==
    \/ target.abs
    \/ target.comps # <<>> /\ Head(target.comps) \in {CurDir, ParentDir}

\* the path an absolute or relative specifier names
SpecifierPath(base, target) ==
    IF target.abs THEN target.comps ELSE BaseDir(base) \o target.comps

\* C25: for a specifier that is absolute or starts with "." or ".." resolve
\* returns the outcome of resolving that one path (as file, else as
\* directory): its error when it fails, whatever node_modules holds; only
\* the other specifiers are looked up in node_modules
C25_NoFallback ==
    (/\ rcall.op = "resolve"
     /\ rcall.base.kind = "real"
     /\ ~(target_env = "Node" /\ rcall.target.text \in CoreModules)) =>
        LET direct == FileOrDirectory(SpecifierPath(rcall.base, rcall.target))
        IN IF IsPathSpecifier(rcall.target)
           THEN /\ direct.tag = "err" => rres = direct
                /\ direct.tag = "ok" =>
                      rres = OkReal(canonicalize(direct.path))
                /\ rres.tag = "ok" => direct.tag = "ok"
           ELSE rres = AndThenWrap(resolve_node_modules(
                           BaseDir(rcall.base), rcall.target))

\* resolve("./m") from /p/a.js failed although /p/node_modules/m.js exists
C25_Witness ==
    /\ rcall.op = "resolve"
    /\ rcall.target = TargetDotM
    /\ rcall.base.kind = "real"
    /\ push(PNM, File("m", "js")) \in fsys.files
    /\ rres.tag = "err"

(* ---------------------------------------------------------------------- *)
(* C26: move_leading and move_trailing                                      *)
(* ---------------------------------------------------------------------- *)
AllComments == PlainComments \cup {PureComment}

\* how often a comment occurs in a sequence
Occ(seq, c) == Cardinality({i \in DOMAIN seq : seq[i] = c})

\* how often a comment occurs in the sequences f holds for the keys
RECURSIVE CountIn(_, _, _)
CountIn(f, keys, c) ==
    IF keys = {} THEN 0
    ELSE LET k == CHOOSE k \in keys : TRUE
         IN Occ(f[k], c) + CountIn(f, keys \ {k}, c)

\* occurrences of a comment in the two maps, and in the hands of the
\* threads that are between the two operations of a move
StoredCount(c) ==
    CountIn([p \in Positions |-> leading[p].cmts], Positions, c)
    + CountIn([p \in Positions |-> trailing[p].cmts], Positions, c)
HeldCount(c) == CountIn([t \in Threads |-> moving[t].cmt], Threads, c)

\* a step of move_leading or move_trailing does what C26 says
MoveStepAsClaimed ==
    LET s == chist'[Len(chist')]
        side == IF s.op = "move_leading" THEN "leading" ELSE "trailing"
        map == IF side = "leading" THEN leading ELSE trailing
        map2 == IF side = "leading" THEN leading' ELSE trailing'
    IN (/\ Len(chist') = Len(chist) + 1
        /\ s.op \in {"move_leading", "move_trailing"}) =>
          /\ (s.step = "remove" /\ map[s.from].present) =>
                /\ map2 = [map EXCEPT ![s.from] = NoEntry]
                /\ moving'[s.thread] = Moving(side, s.to, map[s.from].cmts)
          /\ (s.step = "remove" /\ ~map[s.from].present) =>
                /\ map2 = map
                /\ moving' = moving
          /\ s.step = "extend" =>
                /\ map2[s.to].present
                /\ map2[s.to].cmts = map[s.to].cmts \o moving[s.thread].cmt
                /\ \A p \in Positions \ {s.to} : map2[p] = map[p]
                /\ moving'[s.thread] = NotMoving
          /\ side = "leading" => trailing' = trailing
          /\ side = "trailing" => leading' = leading
          /\ \A c \in AllComments :
                StoredCount(c)' + HeldCount(c)' = StoredCount(c) + HeldCount(c)

\* C26: move_leading(from, to), and move_trailing on the other map, removes
\* the entry of from when there is one and appends its comments, in their
\* order, after the comments at to; without an entry at from it changes
\* nothing and creates no entry; no step of a move adds or loses a comment,
\* whatever from and to are and whatever other calls run between its steps
C26_Move == [][MoveStepAsClaimed]_vars

\* a move_leading from p1 to p2 during which another thread added a
\* leading comment at p2: the comment added comes before the ones moved
C26_Witness ==
    /\ Len(chist) = 3
    /\ chist[1] = Step("move_leading", "remove", "t1", "p1", "p2")
    /\ chist[2] = Step("add_leading", "push", Caller, "p2", "p2")
    /\ chist[3] = Step("move_leading", "extend", "t1", "p2", "p2")
    /\ leading["p1"] = NoEntry
    /\ Len(leading["p2"].cmts) = 4

(* ---------------------------------------------------------------------- *)
(* C27: add_pure_comment                                                    *)
(* ---------------------------------------------------------------------- *)
\* the places of the comments with the text #__PURE__ in a sequence
PureAt(seq) == {i \in DOMAIN seq : seq[i].text = "#__PURE__"}

\* a call of add_pure_comment does what C27 says
PureStepAsClaimed ==
    LET s == chist'[Len(chist')]
        before == leading[s.from].cmts
        after == leading'[s.from].cmts
    IN (Len(chist') = Len(chist) + 1 /\ s.op = "add_pure_comment") =>
          /\ Cardinality(PureAt(after)) = IF PureAt(before) = {} THEN 1
                                          ELSE Cardinality(PureAt(before))
          /\ SelectSeq(after, LAMBDA c : c.text # "#__PURE__") =
                SelectSeq(before, LAMBDA c : c.text # "#__PURE__")
          /\ PureAt(before) # {} => after = before
          /\ \A p \in Positions \ {s.from} : leading'[p] = leading[p]
          /\ trailing' = trailing

\* C27: a call of add_pure_comment(pos) leaves exactly one #__PURE__ comment
\* among the leading comments of pos when there was none and changes
\* nothing when there was one, so that any number of calls, in any
\* interleaving, leaves exactly one; the other leading comments of pos, the
\* other positions and the trailing comments stay as they were
C27_PureOnce == [][PureStepAsClaimed]_vars

\* add_pure_comment called twice on p1, which had comments: one #__PURE__
C27_Witness ==
    /\ chist = <<Step("add_pure_comment", "push", Caller, "p1", "p1"),
                 Step("add_pure_comment", "push", Caller, "p1", "p1")>>
    /\ Len(leading["p1"].cmts) = 3
    /\ Cardinality(PureAt(leading["p1"].cmts)) = 1

====
